---- MODULE Spec2Model ----
(***************************************************************************)
(* Model of the TS++ compiler front-end: the token stream cursor, the      *)
(* lexer, the parser orchestrator with its statement / declaration         *)
(* sub-parsers, and the type checker.                                      *)
(*                                                                         *)
(* Cursor positions, source positions and vector indices keep the 0-based  *)
(* values of the C++ code; element i of a C++ vector v is v[i + 1] here.   *)
(***************************************************************************)
EXTENDS Integers, Sequences, FiniteSets, TLC

VARIABLES
  \* ---- tokens::TokenStream ----
  tokens_,      \* TokenStream::tokens_ (sequence of token kinds)
  current_,     \* TokenStream::current_
  lastCall,     \* the last cursor operation called, with its arguments
  ret,          \* the last boolean a cursor operation returned
  everMoved,    \* TRUE once the cursor has left position 0
  \* ---- lexer::Lexer ----
  lexer,        \* the Lexer object: its members, and the log of the
                \* semicolons skipWhitespace() inserted
  lexDone,      \* TRUE once tokenize() has returned
  \* ---- visitors::ParseVisitor (it reads tokens_ through the cursor) ----
  parser,       \* the parser: nodes_, hadError, the loops that are running
                \* and what the last iteration of visitParse() did
  diagnostics,  \* the messages handed to ErrorReporter::error, in order
  \* ---- visitors::TypeCheckVisitor ----
  checker,      \* the AST under check, the position of checkAST() in it
                \* and its success flag
  \* ---- processCode of main.cpp (it reads the tokens of lexer) ----
  pipeline,     \* parser::Parser: current_, the statements and the errors
                \* reported so far, and the stage processCode() is in
  \* ---- core::ErrorReporter ----
  reporter,     \* the reporter: diagnostics_ and errorCount_
  reportCalls,  \* the calls made on the reporter, in order
  \* ---- the expression parsers, called on their own ----
  exprRun       \* the parser called, its tokens and what it returned

tsVars == <<tokens_, current_, lastCall, ret, everMoved>>

lexVars == <<lexer, lexDone>>

parVars == <<parser, diagnostics>>

chkVars == <<checker>>

pipVars == <<pipeline>>

repVars == <<reporter, reportCalls>>

expVars == <<exprRun>>

vars ==
  <<tokens_, current_, lastCall, ret, everMoved, lexer, lexDone, parser,
    diagnostics, checker, pipeline, reporter, reportCalls, exprRun>>

(***************************************************************************)
(* Bounds                                                                  *)
(***************************************************************************)
MaxStreamLen == 3     \* real tokens in a stream of the cursor specification

MaxSrcLen == 4        \* characters of a source over the full lexer alphabet

MaxLineSrcLen == 5    \* characters of a source over the line-break alphabet

MaxEscapeSrcLen == 4  \* characters of a source of the termination check

MaxParseLen == 4      \* tokens handed to the parser, END_OF_FILE not counted

MaxAstLen == 2        \* top-level nodes of an AST handed to the type checker

MaxBodyLen == 1       \* statements of a block of such an AST

MaxStatements == 2    \* statements of a source handed to processCode()

MaxWords == 5         \* words of a source of the lexer's line specification

MaxCalls == 4         \* calls made on the diagnostic reporter

MaxScopeNodes == 3    \* top-level nodes of an AST of the scope specification

(***************************************************************************)
(* Generic helpers                                                         *)
(***************************************************************************)
SeqsUpTo(S, n) == UNION {[1..k -> S] : k \in 0..n}

Last(s) == s[Len(s)]

\* the value of a function with one argument: With([v \in {e} |-> ...]) is
\* ... for v = e, and e is computed once
With(f) == f[CHOOSE x \in DOMAIN f : TRUE]

(***************************************************************************)
(* tokens::TokenStream                                                     *)
(***************************************************************************)
StreamKinds == {"IDENTIFIER", "SEMICOLON", "LET", "CONST", "CLASS", "FOR"}

\* TokenStream::TokenStream : appends END_OF_FILE when it is missing
TokenStreamCtor(toks) ==
  IF Len(toks) = 0 \/ Last(toks) # "END_OF_FILE"
    THEN Append(toks, "END_OF_FILE")
    ELSE toks

isAtEnd(toks, cur) ==
  cur >= Len(toks) - 1 \/ toks[cur + 1] = "END_OF_FILE"

peek(toks, cur) ==
  IF cur >= Len(toks) THEN Last(toks) ELSE toks[cur + 1]

previous(toks, cur) ==
  IF cur = 0 THEN toks[1]
  ELSE IF cur >= Len(toks) THEN Last(toks)
  ELSE toks[cur]

\* TokenStream::advance : the new cursor (the returned token is previous())
advance(toks, cur) ==
  IF ~isAtEnd(toks, cur) THEN cur + 1 ELSE cur

\* A token is written as its type.  The identifiers whose lexeme a parser
\* compares are written with it; IDENTIFIER alone is the identifier a.
ComparedLexemes ==
  {"asm", "stack", "heap", "static", "unsafe", "safe", "aligned"}

IdentifierToken(lexeme) == "IDENTIFIER " \o lexeme

Asm == IdentifierToken("asm")

\* Token::getType
getType(token) ==
  IF \E l \in ComparedLexemes : token = IdentifierToken(l) THEN "IDENTIFIER"
  ELSE token

\* Token::getLexeme, of an identifier
getLexeme(token) ==
  IF \E l \in ComparedLexemes : token = IdentifierToken(l)
    THEN CHOOSE l \in ComparedLexemes : token = IdentifierToken(l)
  ELSE IF token = "IDENTIFIER" THEN "a"
  ELSE ""

check(toks, cur, type) ==
  IF isAtEnd(toks, cur) THEN FALSE ELSE getType(peek(toks, cur)) = type

\* a plausible slip: advance whether or not the kind matched
matchAlwaysAdvance(toks, cur, type) ==
  [ret |-> check(toks, cur, type), cur |-> advance(toks, cur)]

\* TokenStream::match : returned value and new cursor
match(toks, cur, type) ==
  IF check(toks, cur, type)
    THEN [ret |-> TRUE, cur |-> advance(toks, cur)]
    ELSE [ret |-> FALSE, cur |-> cur]

RECURSIVE matchAnyFrom(_, _, _, _)
matchAnyFrom(toks, cur, types, i) ==
  IF i > Len(types) THEN [ret |-> FALSE, cur |-> cur]
  ELSE LET m == match(toks, cur, types[i])
       IN IF m.ret THEN m ELSE matchAnyFrom(toks, cur, types, i + 1)

matchAny(toks, cur, types) == matchAnyFrom(toks, cur, types, 1)

\* a plausible slip: the clamp is left out
setPositionNoClamp(toks, position) == position

setPosition(toks, position) ==
  IF position < Len(toks) THEN position ELSE Len(toks) - 1

\* the kinds at which TokenStream::synchronize stops
TokenStreamSyncKinds == {"FUNCTION", "LET", "FOR", "IF", "WHILE", "RETURN"}

\* the loop shared by every synchronize() of the front-end: stop when the
\* previous token is a SEMICOLON or the next token is in stops
RECURSIVE syncLoop(_, _, _)
syncLoop(toks, cur, stops) ==
  IF isAtEnd(toks, cur) THEN cur
  ELSE IF previous(toks, cur) = "SEMICOLON" THEN cur
  ELSE IF peek(toks, cur) \in stops THEN cur
  ELSE syncLoop(toks, advance(toks, cur), stops)

TokenStream_synchronize(toks, cur) ==
  syncLoop(toks, advance(toks, cur), TokenStreamSyncKinds)

(***************************************************************************)
(* lexer::Lexer.  A source is a sequence of one-character strings; a       *)
(* lexeme is a sequence of characters too.                                 *)
(***************************************************************************)
Digits == {"0", "1", "2", "3", "4", "5", "6", "7", "8", "9"}

LowerCase ==
  {"a", "b", "c", "d", "e", "f", "g", "h", "i", "j", "k", "l", "m",
   "n", "o", "p", "q", "r", "s", "t", "u", "v", "w", "x", "y", "z"}

UpperCase ==
  {"A", "B", "C", "D", "E", "F", "G", "H", "I", "J", "K", "L", "M",
   "N", "O", "P", "Q", "R", "S", "T", "U", "V", "W", "X", "Y", "Z"}

\* [a-zA-Z_] and \w
IdentStart == LowerCase \cup UpperCase \cup {"_"}

WordChars == IdentStart \cup Digits

\* the characters the regex '.' does not match
LineTerminators == {"\n", "\r"}

\* the number of consecutive characters of S in src from (1-based) index i
RECURSIVE runLen(_, _, _)
runLen(src, i, S) ==
  IF i <= Len(src) /\ src[i] \in S THEN 1 + runLen(src, i + 1, S) ELSE 0

\* does src hold the characters of lit from (1-based) index i on?
startsWith(src, i, lit) ==
  /\ i + Len(lit) - 1 <= Len(src)
  /\ \A k \in 1..Len(lit) : src[i + k - 1] = lit[k]

\* Each pattern is applied with match_continuous to the text from pos
\* (0-based) on; the result is the length of the match, 0 when there is none.

\* identifierPattern  [a-zA-Z_]\w*
identifierPattern(src, pos) ==
  IF pos < Len(src) /\ src[pos + 1] \in IdentStart
    THEN 1 + runLen(src, pos + 2, WordChars)
    ELSE 0

\* numberPattern  -?\d+(\.\d+)?([eE][+-]?\d+)?
numberPattern(src, pos) ==
  LET sign == IF pos < Len(src) /\ src[pos + 1] = "-" THEN 1 ELSE 0
      int == runLen(src, pos + 1 + sign, Digits)
      afterInt == pos + 1 + sign + int
      fracDigits == IF afterInt <= Len(src) /\ src[afterInt] = "."
                      THEN runLen(src, afterInt + 1, Digits) ELSE 0
      frac == IF fracDigits > 0 THEN 1 + fracDigits ELSE 0
      afterFrac == afterInt + frac
      hasE == afterFrac <= Len(src) /\ src[afterFrac] \in {"e", "E"}
      expSign == IF hasE /\ afterFrac + 1 <= Len(src)
                      /\ src[afterFrac + 1] \in {"+", "-"} THEN 1 ELSE 0
      expDigits == IF hasE THEN runLen(src, afterFrac + 1 + expSign, Digits)
                   ELSE 0
      exp == IF expDigits > 0 THEN 1 + expSign + expDigits ELSE 0
  IN IF int = 0 THEN 0 ELSE sign + int + frac + exp

\* the (1-based) index of the quote closing a string body that continues at
\* index j, 0 when the body does not match ([^"\\]|\\.)*"
RECURSIVE stringBodyEnd(_, _)
stringBodyEnd(src, j) ==
  IF j > Len(src) THEN 0
  ELSE IF src[j] = "\"" THEN j
  ELSE IF src[j] = "\\"
    THEN IF j + 1 <= Len(src) /\ src[j + 1] \notin LineTerminators
           THEN stringBodyEnd(src, j + 2)
           ELSE 0
  ELSE stringBodyEnd(src, j + 1)

\* stringPattern  "([^"\\]|\\.)*"
stringPattern(src, pos) ==
  IF pos < Len(src) /\ src[pos + 1] = "\""
    THEN LET close == stringBodyEnd(src, pos + 2)
         IN IF close = 0 THEN 0 ELSE close - pos
    ELSE 0

\* the multi-character alternatives of operatorPattern, in the order the
\* regex tries them
OperatorAlternatives ==
  << <<">", ">", ">", "=">>, <<"<", "<", "=">>, <<">", ">", "=">>,
     <<"+", "+">>, <<"-", "-">>, <<"&", "&">>, <<"|", "|">>,
     <<"=", "=">>, <<"!", "=">>, <<"<", "=">>, <<">", "=">>,
     <<"+", "=">>, <<"-", "=">>, <<"*", "=">>, <<"/", "=">>,
     <<"%", "=">>, <<"&", "=">>, <<"|", "=">>, <<"^", "=">>,
     <<"<", "<">>, <<">", ">">> >>

\* the final alternative  [+\-*/%=&|^~<>!]
OperatorChars ==
  {"+", "-", "*", "/", "%", "=", "&", "|", "^", "~", "<", ">", "!"}

RECURSIVE operatorFrom(_, _, _)
operatorFrom(src, pos, k) ==
  IF k > Len(OperatorAlternatives)
    THEN IF pos < Len(src) /\ src[pos + 1] \in OperatorChars THEN 1 ELSE 0
  ELSE IF startsWith(src, pos + 1, OperatorAlternatives[k])
    THEN Len(OperatorAlternatives[k])
  ELSE operatorFrom(src, pos, k + 1)

operatorPattern(src, pos) == operatorFrom(src, pos, 1)

\* Lexer::keywords, as pairs <<lexeme, kind>>
keywords ==
  { <<<<"l", "e", "t">>, "LET">>,
    <<<<"c", "o", "n", "s", "t">>, "CONST">>,
    <<<<"f", "u", "n", "c", "t", "i", "o", "n">>, "FUNCTION">>,
    <<<<"r", "e", "t", "u", "r", "n">>, "RETURN">>,
    <<<<"i", "f">>, "IF">>,
    <<<<"e", "l", "s", "e">>, "ELSE">>,
    <<<<"i", "n", "t">>, "TYPE_INT">>,
    <<<<"f", "l", "o", "a", "t">>, "TYPE_FLOAT">>,
    <<<<"s", "t", "r", "i", "n", "g">>, "TYPE_STRING">>,
    <<<<"b", "o", "o", "l", "e", "a", "n">>, "TYPE_BOOLEAN">>,
    <<<<"n", "u", "l", "l">>, "NULL_LITERAL">>,
    <<<<"u", "n", "d", "e", "f", "i", "n", "e", "d">>, "UNDEFINED_LITERAL">>,
    <<<<"t", "r", "u", "e">>, "BOOLEAN_LITERAL">>,
    <<<<"f", "a", "l", "s", "e">>, "BOOLEAN_LITERAL">> }

\* Lexer::operators, as pairs <<lexeme, kind>>
operators ==
  { <<<<">", ">", ">">>, "RIGHT_SHIFT">>,
    <<<<"<", "<", "<">>, "LEFT_SHIFT">>,
    <<<<">", ">", "=">>, "RIGHT_SHIFT_ASSIGN">>,
    <<<<"<", "<", "=">>, "LEFT_SHIFT_ASSIGN">>,
    <<<<"+", "+">>, "INCREMENT">>,
    <<<<"-", "-">>, "DECREMENT">>,
    <<<<"&", "&">>, "AND">>,
    <<<<"|", "|">>, "OR">>,
    <<<<"=", "=">>, "EQUALS">>,
    <<<<"!", "=">>, "NOT_EQUALS">>,
    <<<<"<", "=">>, "LESS_EQUAL">>,
    <<<<">", "=">>, "GREATER_EQUAL">>,
    <<<<"+", "=">>, "PLUS_ASSIGN">>,
    <<<<"-", "=">>, "MINUS_ASSIGN">>,
    <<<<"*", "=">>, "MULTIPLY_ASSIGN">>,
    <<<<"/", "=">>, "DIVIDE_ASSIGN">>,
    <<<<"%", "=">>, "MODULO_ASSIGN">>,
    <<<<"&", "=">>, "AND_ASSIGN">>,
    <<<<"|", "=">>, "OR_ASSIGN">>,
    <<<<"^", "=">>, "XOR_ASSIGN">>,
    <<<<"+">>, "PLUS">>,
    <<<<"-">>, "MINUS">>,
    <<<<"*">>, "MULTIPLY">>,
    <<<<"/">>, "DIVIDE">>,
    <<<<"%">>, "MODULO">>,
    <<<<"^">>, "POWER">>,
    <<<<"&">>, "BITWISE_AND">>,
    <<<<"|">>, "BITWISE_OR">>,
    <<<<"~">>, "BITWISE_NOT">>,
    <<<<"!">>, "NOT">>,
    <<<<"<">>, "LESS_THAN">>,
    <<<<">">>, "GREATER_THAN">>,
    <<<<"=">>, "ASSIGN">> }

\* map.find(key): the kind stored under key, "none" for map.end()
find(map, key) ==
  IF \E e \in map : e[1] = key
    THEN (CHOOSE e \in map : e[1] = key)[2]
    ELSE "none"

\* the single-character tokens of scanToken's switch
SingleCharTokens ==
  { <<<<"(">>, "LEFT_PAREN">>, <<<<")">>, "RIGHT_PAREN">>,
    <<<<"{">>, "LEFT_BRACE">>, <<<<"}">>, "RIGHT_BRACE">>,
    <<<<"[">>, "LEFT_BRACKET">>, <<<<"]">>, "RIGHT_BRACKET">>,
    <<<<":">>, "COLON">>, <<<<";">>, "SEMICOLON">>,
    <<<<",">>, "COMMA">>, <<<<".">>, "DOT">> }

\* Token(type, lexeme, line, column, errorMessage); a message is the
\* sequence of the pieces it is concatenated from
Token(type, lexeme, line, column, message) ==
  [type |-> type, lexeme |-> lexeme, line |-> line, column |-> column,
   errorMessage |-> message]

\* Lexer::Lexer.  errorCount is the number of errors handed to the
\* ErrorReporter; inserted lists the semicolons skipWhitespace() added: the
\* position of the newline and the index of the semicolon in tokens_
LexerCtor(source) ==
  [source_ |-> source, position_ |-> 0, line_ |-> 1, column_ |-> 1,
   tokens_ |-> <<>>, lastStatementLine_ |-> 1, statementStarted_ |-> FALSE,
   errorCount |-> 0, inserted |-> <<>>]

Lexer_isAtEnd(L) == L.position_ >= Len(L.source_)

\* reportError with the ERROR token placed at the start of the line
reportErrorAtLineStart(L, message) ==
  [L EXCEPT !.errorCount = @ + 1,
            !.tokens_ = Append(@, Token("ERROR_TOKEN", <<>>, L.line_, 1,
                                        message))]

\* Lexer::reportError
reportError(L, message) ==
  [L EXCEPT !.errorCount = @ + 1,
            !.tokens_ = Append(@, Token("ERROR_TOKEN", <<>>, L.line_,
                                        L.column_, message))]

\* Lexer::synchronize : skip to just after the next ';' or newline
RECURSIVE Lexer_synchronize(_)
Lexer_synchronize(L) ==
  IF Lexer_isAtEnd(L) THEN L
  ELSE LET c == L.source_[L.position_ + 1]
       IN IF c = "\n"
            THEN [L EXCEPT !.position_ = @ + 1, !.line_ = @ + 1,
                           !.column_ = 1]
          ELSE IF c = ";"
            THEN [L EXCEPT !.position_ = @ + 1, !.column_ = @ + 1]
          ELSE Lexer_synchronize([L EXCEPT !.position_ = @ + 1,
                                           !.column_ = @ + 1])

isStatementStart(type) ==
  type \in {"LET", "CONST", "FUNCTION", "RETURN", "IF", "FOR", "WHILE"}

\* Lexer::addToken
addToken(L, type, lexeme) ==
  IF /\ isStatementStart(type)
     /\ L.statementStarted_
     /\ L.line_ = L.lastStatementLine_
     /\ (L.tokens_ = <<>> \/ Last(L.tokens_).type # "SEMICOLON")
    THEN Lexer_synchronize(
           reportError(L, <<"Multiple statements on one line require explicit semicolons">>))
    ELSE LET L1 == IF isStatementStart(type)
                     THEN [L EXCEPT !.statementStarted_ = TRUE,
                                    !.lastStatementLine_ = L.line_]
                     ELSE L
             L2 == IF type = "SEMICOLON"
                     THEN [L1 EXCEPT !.statementStarted_ = FALSE]
                     ELSE L1
         IN [L2 EXCEPT !.tokens_ = Append(@, Token(type, lexeme, L.line_,
                                                   L.column_, <<>>))]

\* the lookahead of skipWhitespace() at a newline: the first position after
\* it that holds neither a space nor a tab
RECURSIVE nextPos(_, _)
nextPos(src, p) ==
  IF p < Len(src) /\ src[p + 1] \in {" ", "\t"} THEN nextPos(src, p + 1)
  ELSE p

\* the test of skipWhitespace() for turning the newline at position_ into a
\* semicolon
newlineIsSemicolon(L) ==
  /\ L.tokens_ # <<>>
  /\ Last(L.tokens_).type # "SEMICOLON"
  /\ LET n == nextPos(L.source_, L.position_ + 1)
     IN n >= Len(L.source_) \/ L.source_[n + 1] \in {"\n", "}", ";"}

\* the position where a single-line comment stops
RECURSIVE lineCommentEnd(_, _)
lineCommentEnd(src, p) ==
  IF p < Len(src) /\ src[p + 1] # "\n" THEN lineCommentEnd(src, p + 1) ELSE p

\* the inner loop of a multi-line comment
RECURSIVE blockCommentBody(_)
blockCommentBody(L) ==
  LET src == L.source_
      p == L.position_
  IN IF p + 1 < Len(src) /\ ~(src[p + 1] = "*" /\ src[p + 2] = "/")
       THEN blockCommentBody(
              IF src[p + 1] = "\n"
                THEN [L EXCEPT !.line_ = @ + 1, !.column_ = 1,
                               !.position_ = @ + 1]
                ELSE [L EXCEPT !.column_ = @ + 1, !.position_ = @ + 1])
       ELSE L

\* Lexer::skipWhitespace
RECURSIVE skipWhitespace(_)
skipWhitespace(L) ==
  LET src == L.source_
      p == L.position_
  IN IF p >= Len(src) THEN L
     ELSE IF src[p + 1] \in {" ", "\t", "\r"}
       THEN skipWhitespace([L EXCEPT !.position_ = @ + 1, !.column_ = @ + 1])
     ELSE IF src[p + 1] = "\n"
       THEN LET L1 == IF newlineIsSemicolon(L)
                        THEN [L EXCEPT
                               !.tokens_ = Append(@, Token("SEMICOLON",
                                             <<";">>, L.line_, L.column_,
                                             <<>>)),
                               !.inserted = Append(@,
                                             [pos |-> p,
                                              index |-> Len(L.tokens_) + 1])]
                        ELSE L
            IN skipWhitespace([L1 EXCEPT !.position_ = @ + 1,
                                         !.line_ = @ + 1, !.column_ = 1])
     ELSE IF src[p + 1] = "/" /\ p + 1 < Len(src) /\ src[p + 2] = "/"
       THEN skipWhitespace([L EXCEPT !.position_ = lineCommentEnd(src, p + 2)])
     ELSE IF src[p + 1] = "/" /\ p + 1 < Len(src) /\ src[p + 2] = "*"
       THEN LET L1 == blockCommentBody([L EXCEPT !.position_ = @ + 2])
            IN skipWhitespace(
                 IF L1.position_ + 1 < Len(src)
                   THEN [L1 EXCEPT !.position_ = @ + 2]
                   ELSE L1)
     ELSE L

\* the escape loop of scanToken over the matched text str (quotes
\* included), from (1-based) index i on: ok is FALSE when the loop meets an
\* escape it does not know
RECURSIVE processEscapes(_, _, _)
processEscapes(str, i, processed) ==
  IF i >= Len(str) THEN [ok |-> TRUE, processed |-> processed]
  ELSE IF str[i] = "\\"
    THEN LET e == str[i + 1]
         IN IF e = "n" THEN processEscapes(str, i + 2, Append(processed, "\n"))
            ELSE IF e = "t"
              THEN processEscapes(str, i + 2, Append(processed, "\t"))
            ELSE IF e = "r"
              THEN processEscapes(str, i + 2, Append(processed, "\r"))
            ELSE IF e = "\\"
              THEN processEscapes(str, i + 2, Append(processed, "\\"))
            ELSE IF e = "\""
              THEN processEscapes(str, i + 2, Append(processed, "\""))
            ELSE [ok |-> FALSE, processed |-> processed]
  ELSE processEscapes(str, i + 1, Append(processed, str[i]))

\* position_ += n; column_ += n
consumed(L, n) == [L EXCEPT !.position_ = @ + n, !.column_ = @ + n]

\* Lexer::scanToken
scanToken(L) ==
  LET src == L.source_
      p == L.position_
      strLen == stringPattern(src, p)
      numLen == numberPattern(src, p)
      idLen == identifierPattern(src, p)
      opLen == operatorPattern(src, p)
  IN IF strLen > 0
       THEN LET r == processEscapes(SubSeq(src, p + 1, p + strLen), 2, <<>>)
            IN IF r.ok
                 THEN consumed(addToken(L, "STRING_LITERAL", r.processed),
                               strLen)
                 ELSE reportError(L, <<"Invalid escape sequence">>)
     ELSE IF numLen > 0
       THEN consumed(addToken(L, "NUMBER_LITERAL",
                              SubSeq(src, p + 1, p + numLen)), numLen)
     ELSE IF idLen > 0
       THEN LET identifier == SubSeq(src, p + 1, p + idLen)
                kw == find(keywords, identifier)
            IN consumed(addToken(L, IF kw # "none" THEN kw ELSE "IDENTIFIER",
                                 identifier), idLen)
     ELSE IF opLen > 0
       THEN LET op == SubSeq(src, p + 1, p + opLen)
                kind == find(operators, op)
            IN consumed(IF kind # "none"
                          THEN addToken(L, kind, op)
                          ELSE reportError(L, <<"Unknown operator: ">> \o op),
                        opLen)
     ELSE LET c == src[p + 1]
              kind == find(SingleCharTokens, <<c>>)
          IN consumed(IF kind # "none"
                        THEN addToken(L, kind, <<c>>)
                        ELSE reportError(L, <<"Unexpected character: '", c,
                                              "'">>),
                      1)

\* one pass of the loop of Lexer::tokenize
tokenizeStep(L) ==
  LET L1 == skipWhitespace(L)
  IN IF ~Lexer_isAtEnd(L1) THEN scanToken(L1) ELSE L1

\* the end of Lexer::tokenize
tokenizeEnd(L) ==
  [L EXCEPT !.tokens_ = Append(@, Token("END_OF_FILE", <<>>, L.line_,
                                        L.column_, <<>>))]

(***************************************************************************)
(* The parser.  Every parse function works on the shared TokenStream and   *)
(* ErrorReporter; here it takes the token kinds and the cursor and         *)
(* returns the node it built (Null for nullptr), the new cursor and the    *)
(* messages it handed to ErrorReporter::error, in order.                   *)
(***************************************************************************)
Null == [kind |-> "null"]

Parsed(node, cur, diags) == [node |-> node, cur |-> cur, diags |-> diags]

\* return nullptr, after reporting the messages in diags
Failed(cur, diags) == Parsed(Null, cur, diags)

\* the consume(type, message) helper every sub-parser has
consume(toks, cur, type, message) ==
  IF check(toks, cur, type)
    THEN [ok |-> TRUE, cur |-> advance(toks, cur), diags |-> <<>>]
    ELSE [ok |-> FALSE, cur |-> cur, diags |-> <<message>>]

(***************************************************************************)
(* expression/ : ExpressionParseVisitor and its sub-visitors               *)
(***************************************************************************)
AssignmentOps ==
  {"EQUALS", "PLUS_EQUALS", "MINUS_EQUALS", "STAR_EQUALS", "SLASH_EQUALS"}

ComparisonOps ==
  {"LESS", "LESS_EQUALS", "GREATER", "GREATER_EQUALS", "EQUALS_EQUALS",
   "EXCLAIM_EQUALS"}

AdditiveOps == {"PLUS", "MINUS"}

MultiplicativeOps == {"STAR", "SLASH", "PERCENT"}

isUnaryOperator(type) ==
  type \in {"MINUS", "EXCLAIM", "TILDE", "PLUS_PLUS", "MINUS_MINUS"}

LiteralKinds == {"NUMBER", "STRING_LITERAL", "TRUE", "FALSE"}

\* match(a) || match(b) || ... over the kinds of a set
matchesOneOf(toks, cur, kinds) == \E k \in kinds : check(toks, cur, k)

RECURSIVE parseAssignment(_, _)
RECURSIVE parseComparison(_, _)
RECURSIVE comparisonLoop(_, _, _, _)
RECURSIVE parseAdditive(_, _)
RECURSIVE additiveLoop(_, _, _, _)
RECURSIVE parseMultiplicative(_, _)
RECURSIVE multiplicativeLoop(_, _, _, _)
RECURSIVE parseUnary(_, _)
RECURSIVE parsePrimary(_, _)
RECURSIVE parsePostfixOperations(_, _)
RECURSIVE parseExpressionList(_, _, _)
RECURSIVE parseArrayLiteral(_, _)

\* ExpressionParseVisitor::parseExpression
parseExpression(toks, cur) == parseAssignment(toks, cur)

\* a binary node over the operands l and r, with the messages of both
Binary(kind, op, l, r) ==
  Parsed([kind |-> kind, op |-> op, left |-> l.node, right |-> r.node],
         r.cur, l.diags \o r.diags)

parseAssignment(toks, cur) ==
  With([expr \in {parseComparison(toks, cur)} |->
    IF expr.node = Null THEN expr
    ELSE IF matchesOneOf(toks, expr.cur, AssignmentOps)
      THEN With([value \in {parseAssignment(toks, advance(toks, expr.cur))} |->
        IF value.node = Null
          THEN Failed(value.cur, expr.diags \o value.diags)
          ELSE Binary("Assignment", peek(toks, expr.cur), expr, value)])
    ELSE expr])

\* a left operand for the operand loops below: none so far
NoOperand(cur) == Parsed(Null, cur, <<>>)

\* the operands of parseComparison from cur on: the first operand, and one
\* more behind every operator the while loop matches; left is the
\* expression parsed so far, op the operator matched behind it
comparisonLoop(toks, left, op, cur) ==
  With([right \in {parseAdditive(toks, cur)} |->
    IF right.node = Null THEN Failed(right.cur, left.diags \o right.diags)
    ELSE With([expr \in {IF left.node = Null THEN right
                         ELSE Binary("Binary", op, left, right)} |->
           IF matchesOneOf(toks, expr.cur, ComparisonOps)
             THEN comparisonLoop(toks, expr, peek(toks, expr.cur),
                                 advance(toks, expr.cur))
             ELSE expr])])

parseComparison(toks, cur) ==
  comparisonLoop(toks, NoOperand(cur), "none", cur)

additiveLoop(toks, left, op, cur) ==
  With([right \in {parseMultiplicative(toks, cur)} |->
    IF right.node = Null THEN Failed(right.cur, left.diags \o right.diags)
    ELSE With([expr \in {IF left.node = Null THEN right
                         ELSE Binary("Binary", op, left, right)} |->
           IF matchesOneOf(toks, expr.cur, AdditiveOps)
             THEN additiveLoop(toks, expr, peek(toks, expr.cur),
                               advance(toks, expr.cur))
             ELSE expr])])

parseAdditive(toks, cur) == additiveLoop(toks, NoOperand(cur), "none", cur)

multiplicativeLoop(toks, left, op, cur) ==
  With([right \in {parseUnary(toks, cur)} |->
    IF right.node = Null THEN Failed(right.cur, left.diags \o right.diags)
    ELSE With([expr \in {IF left.node = Null THEN right
                         ELSE Binary("Binary", op, left, right)} |->
           IF matchesOneOf(toks, expr.cur, MultiplicativeOps)
             THEN multiplicativeLoop(toks, expr, peek(toks, expr.cur),
                                     advance(toks, expr.cur))
             ELSE expr])])

parseMultiplicative(toks, cur) ==
  multiplicativeLoop(toks, NoOperand(cur), "none", cur)

\* UnaryExpressionVisitor::parseUnary
parseUnary(toks, cur) ==
  IF isUnaryOperator(peek(toks, cur))
    THEN With([operand \in {parseUnary(toks, advance(toks, cur))} |->
           IF operand.node = Null THEN operand
           ELSE Parsed([kind |-> "Unary", op |-> peek(toks, cur),
                        operand |-> operand.node],
                       operand.cur, operand.diags)])
    ELSE parsePrimary(toks, cur)

\* the do { parseExpression } while (match(COMMA)) loops of the call
\* arguments and of the array elements
parseExpressionList(toks, cur, nodes) ==
  With([e \in {parseExpression(toks, cur)} |->
    IF e.node = Null
      THEN [ok |-> FALSE, cur |-> e.cur, diags |-> e.diags, nodes |-> nodes]
    ELSE IF check(toks, e.cur, "COMMA")
      THEN With([rest \in {parseExpressionList(toks, advance(toks, e.cur),
                                    Append(nodes, e.node))} |->
             [rest EXCEPT !.diags = e.diags \o @]])
    ELSE [ok |-> TRUE, cur |-> e.cur, diags |-> e.diags,
          nodes |-> Append(nodes, e.node)]])

\* the closing token behind a parsed part: the node make(part) if it is
\* there, else the message
closeWith(toks, part, type, message, make(_)) ==
  With([close \in {consume(toks, part.cur, type, message)} |->
    IF ~close.ok THEN Failed(close.cur, part.diags \o close.diags)
    ELSE Parsed(make(part), close.cur, part.diags)])

\* PrimaryExpressionVisitor::parsePostfixOperations
parsePostfixOperations(toks, expr) ==
  IF check(toks, expr.cur, "DOT")
    THEN With([cur1 \in {advance(toks, expr.cur)} |->
           IF getType(peek(toks, cur1)) # "IDENTIFIER"
             THEN Failed(cur1, expr.diags
                                 \o <<"Expected property name after '.'">>)
             ELSE parsePostfixOperations(toks,
                    Parsed([kind |-> "Member", object |-> expr.node],
                           advance(toks, cur1), expr.diags))])
  ELSE IF check(toks, expr.cur, "LEFT_BRACKET")
    THEN With([index \in {parseExpression(toks, advance(toks, expr.cur))} |->
           IF index.node = Null
             THEN Failed(index.cur, expr.diags \o index.diags)
             ELSE With([indexed \in {closeWith(toks,
                         [index EXCEPT !.diags = expr.diags \o @],
                         "RIGHT_BRACKET", "Expected ']' after array index",
                         LAMBDA i : [kind |-> "Index", array |-> expr.node,
                                     index |-> i.node])} |->
                         IF indexed.node = Null THEN indexed
                         ELSE parsePostfixOperations(toks, indexed)])])
  ELSE IF check(toks, expr.cur, "LEFT_PAREN")
    THEN With([args \in {IF check(toks, advance(toks, expr.cur), "RIGHT_PAREN")
                THEN [ok |-> TRUE, cur |-> advance(toks, expr.cur),
                      diags |-> <<>>, nodes |-> <<>>]
                ELSE parseExpressionList(toks, advance(toks, expr.cur),
                                         <<>>)} |->
           IF ~args.ok THEN Failed(args.cur, expr.diags \o args.diags)
           ELSE With([called \in {closeWith(toks,
                       [args EXCEPT !.diags = expr.diags \o @],
                       "RIGHT_PAREN",
                       "Expected ')' after function arguments",
                       LAMBDA a : [kind |-> "Call", callee |-> expr.node,
                                   arguments |-> a.nodes])} |->
                       IF called.node = Null THEN called
                       ELSE parsePostfixOperations(toks, called)])])
  ELSE expr

\* PrimaryExpressionVisitor::parseArrayLiteral, called after the '['
parseArrayLiteral(toks, cur) ==
  IF check(toks, cur, "RIGHT_BRACKET")
    THEN Parsed([kind |-> "ArrayLiteral", elements |-> <<>>],
                advance(toks, cur), <<>>)
    ELSE With([elems \in {parseExpressionList(toks, cur, <<>>)} |->
           IF ~elems.ok THEN Failed(elems.cur, elems.diags)
           ELSE closeWith(toks, elems, "RIGHT_BRACKET",
                          "Expected ']' after array elements",
                          LAMBDA e : [kind |-> "ArrayLiteral",
                                      elements |-> e.nodes])])

\* PrimaryExpressionVisitor::parsePrimary
parsePrimary(toks, cur) ==
  IF check(toks, cur, "LEFT_BRACKET")
    THEN parseArrayLiteral(toks, advance(toks, cur))
  ELSE IF check(toks, cur, "IDENTIFIER")
    THEN parsePostfixOperations(toks,
           Parsed([kind |-> "Identifier"], advance(toks, cur), <<>>))
  ELSE IF matchesOneOf(toks, cur, LiteralKinds)
    THEN parsePostfixOperations(toks,
           Parsed([kind |-> "Literal", type |-> peek(toks, cur)],
                  advance(toks, cur), <<>>))
  ELSE IF check(toks, cur, "LEFT_PAREN")
    THEN With([expr \in {parseExpression(toks, advance(toks, cur))} |->
           IF expr.node = Null THEN expr
           ELSE With([inner \in {closeWith(toks, expr, "RIGHT_PAREN",
                               "Expected ')' after expression",
                               LAMBDA e : e.node)} |->
                       IF inner.node = Null THEN inner
                       ELSE parsePostfixOperations(toks, inner)])])
  ELSE Failed(cur, <<"Expected expression">>)

\* BinaryExpressionVisitor::getOperatorPrecedence
getOperatorPrecedence(type) ==
  CASE type \in {"DOT", "AT"} -> 14
    [] type \in {"STAR", "SLASH", "PERCENT"} -> 13
    [] type \in {"PLUS", "MINUS"} -> 12
    [] type \in {"LEFT_SHIFT", "RIGHT_SHIFT"} -> 11
    [] type \in {"LESS", "GREATER", "LESS_EQUALS", "GREATER_EQUALS"} -> 10
    [] type \in {"EQUALS_EQUALS", "EXCLAIM_EQUALS"} -> 9
    [] type = "AMPERSAND" -> 8
    [] type = "CARET" -> 7
    [] type = "PIPE" -> 6
    [] type = "AMPERSAND_AMPERSAND" -> 5
    [] type = "PIPE_PIPE" -> 4
    [] type \in {"EQUALS", "PLUS_EQUALS", "MINUS_EQUALS", "STAR_EQUALS",
                 "SLASH_EQUALS", "PERCENT_EQUALS", "AMPERSAND_EQUALS",
                 "PIPE_EQUALS", "CARET_EQUALS"} -> 3
    [] OTHER -> -1

\* BinaryExpressionVisitor::isBinaryOperator
isBinaryOperator(type) ==
  IF getOperatorPrecedence(type) = -1 THEN FALSE
  ELSE IF type \in {"PLUS", "MINUS"} THEN TRUE
  ELSE type \notin {"TILDE", "EXCLAIM", "PLUS_PLUS", "MINUS_MINUS"}

\* BinaryExpressionVisitor::parseBinary, with parseUnary as its unaryParser_
RECURSIVE parseBinary(_, _, _)
parseBinary(toks, left, minPrecedence) ==
  IF \/ ~isBinaryOperator(peek(toks, left.cur))
     \/ getOperatorPrecedence(peek(toks, left.cur)) < minPrecedence
    THEN left
    ELSE With([right \in {parseUnary(toks, advance(toks, left.cur))} |->
           IF right.node = Null
             THEN Failed(right.cur, left.diags \o right.diags)
             ELSE parseBinary(toks,
                    Binary("Binary", peek(toks, left.cur), left, right),
                    minPrecedence)])

(***************************************************************************)
(* declaration/ and statement/ : the sub-parsers of the orchestrator.      *)
(* The token alphabet of the specifications has no branches, no while      *)
(* loops and no flow control; the branches of parseStatement that need     *)
(* them are left out below.                                                *)
(***************************************************************************)
\* TYPE_BEGIN .. TYPE_END of the TokenType enumeration
PrimitiveTypeKinds == {"INT", "FLOAT", "BOOLEAN", "STRING", "VOID"}

\* TokenStream::peekNext(1)
peekNext(toks, cur) ==
  IF cur + 1 >= Len(toks) THEN Last(toks) ELSE toks[cur + 2]

\* DeclarationParseVisitor::parsePrimaryType
parsePrimaryType(toks, cur) ==
  IF peek(toks, cur) \in PrimitiveTypeKinds
    THEN Parsed([kind |-> "PrimitiveType"], advance(toks, cur), <<>>)
  ELSE IF check(toks, cur, "IDENTIFIER")
    THEN Parsed([kind |-> "NamedType"], advance(toks, cur), <<>>)
  ELSE Failed(cur, <<"Expected type name">>)

\* DeclarationParseVisitor::parsePointerType, called behind the '@'
parsePointerType(toks, cur) ==
  IF check(toks, cur, "UNSAFE")
    THEN Parsed([kind |-> "PointerType"], advance(toks, cur), <<>>)
  ELSE IF check(toks, cur, "ALIGNED")
    THEN With([open \in {consume(toks, advance(toks, cur), "LEFT_PAREN",
                      "Expected '(' after aligned")} |->
      IF ~open.ok THEN Failed(open.cur, open.diags)
      ELSE IF ~check(toks, open.cur, "NUMBER")
        THEN Failed(open.cur, <<"Expected alignment value">>)
      ELSE With([close \in {consume(toks, advance(toks, open.cur), "RIGHT_PAREN",
                        "Expected ')' after alignment value")} |->
        IF ~close.ok THEN Failed(close.cur, close.diags)
        ELSE Parsed([kind |-> "PointerType"], close.cur, <<>>)])])
  ELSE Parsed([kind |-> "PointerType"], cur, <<>>)

\* DeclarationParseVisitor::parseArrayType, called behind the '['
parseArrayType(toks, cur) ==
  With([sizeExpr \in {IF check(toks, cur, "RIGHT_BRACKET")
         THEN Parsed([kind |-> "none"], cur, <<>>)
         ELSE parseExpression(toks, cur)} |->
    IF sizeExpr.node = Null THEN sizeExpr
    ELSE closeWith(toks, sizeExpr, "RIGHT_BRACKET",
                   "Expected ']' after array type",
                   LAMBDA s : [kind |-> "ArrayType"])])

\* DeclarationParseVisitor::parseUnionType, called behind the '|'
parseUnionType(toks, cur) ==
  With([rightType \in {parsePrimaryType(toks, cur)} |->
    IF rightType.node = Null THEN rightType
    ELSE Parsed([kind |-> "UnionType"], rightType.cur, rightType.diags)])

\* do { parsePrimaryType() } while (match(COMMA))
RECURSIVE templateArguments(_, _)
templateArguments(toks, cur) ==
  With([typeArg \in {parsePrimaryType(toks, cur)} |->
    IF typeArg.node = Null THEN typeArg
    ELSE IF check(toks, typeArg.cur, "COMMA")
      THEN templateArguments(toks, advance(toks, typeArg.cur))
    ELSE typeArg])

\* DeclarationParseVisitor::parseTemplateType, with the cursor on the name
parseTemplateType(toks, cur) ==
  With([less \in {consume(toks, advance(toks, cur), "LESS",
               "Expected '<' after template name")} |->
    IF ~less.ok THEN Failed(less.cur, less.diags)
    ELSE With([typeArgs \in {templateArguments(toks, less.cur)} |->
      IF typeArgs.node = Null THEN typeArgs
      ELSE closeWith(toks, typeArgs, "GREATER",
                     "Expected '>' after template arguments",
                     LAMBDA t : [kind |-> "TemplateType"])])])

RECURSIVE parseType(_, _)

\* DeclarationParseVisitor::parseSmartPointerType, with the cursor on
\* #shared, #unique or #weak
parseSmartPointerType(toks, cur) ==
  With([less \in {consume(toks, advance(toks, cur), "LESS",
               "Expected '<' after smart pointer type")} |->
    IF ~less.ok THEN Failed(less.cur, less.diags)
    ELSE With([pointeeType \in {parseType(toks, less.cur)} |->
      IF pointeeType.node = Null THEN pointeeType
      ELSE closeWith(toks, pointeeType, "GREATER",
                     "Expected '>' after smart pointer type",
                     LAMBDA p : [kind |-> "SmartPointerType"])])])

\* is the cursor on a type modifier of the while (true) loop of parseType?
isTypeModifier(toks, cur) ==
  \/ \E k \in {"AT", "LEFT_BRACKET", "AMPERSAND", "PIPE"} : check(toks, cur, k)
  \/ check(toks, cur, "IDENTIFIER") /\ peekNext(toks, cur) = "LESS"

\* the while (true) loop of parseType, with type the type parsed so far
RECURSIVE parseTypeModifiers(_, _)
parseTypeModifiers(toks, type) ==
  IF ~isTypeModifier(toks, type.cur) THEN type
  ELSE With([modified \in {IF check(toks, type.cur, "AT")
              THEN parsePointerType(toks, advance(toks, type.cur))
            ELSE IF check(toks, type.cur, "LEFT_BRACKET")
              THEN parseArrayType(toks, advance(toks, type.cur))
            ELSE IF check(toks, type.cur, "AMPERSAND")
              THEN Parsed([kind |-> "ReferenceType"],
                          advance(toks, type.cur), <<>>)
            ELSE IF check(toks, type.cur, "PIPE")
              THEN parseUnionType(toks, advance(toks, type.cur))
            ELSE parseTemplateType(toks, type.cur)} |->
         IF modified.node = Null
           THEN Failed(modified.cur, type.diags \o modified.diags)
           ELSE parseTypeModifiers(toks,
                  [modified EXCEPT !.diags = type.diags \o @])])

\* DeclarationParseVisitor::parseType
parseType(toks, cur) ==
  IF \E k \in {"SHARED", "UNIQUE", "WEAK"} : check(toks, cur, k)
    THEN parseSmartPointerType(toks, cur)
    ELSE With([type \in {IF check(toks, cur, "IDENTIFIER")
                   /\ peekNext(toks, cur) = "LESS"
                THEN parseTemplateType(toks, cur)
                ELSE parsePrimaryType(toks, cur)} |->
           IF type.node = Null THEN type
           ELSE parseTypeModifiers(toks, type)])

\* if (match(COLON)) { type = parseType(); if (!type) return nullptr; }
typeAnnotation(toks, cur) ==
  IF check(toks, cur, "COLON")
    THEN With([type \in {parseType(toks, advance(toks, cur))} |->
           [ok |-> type.node # Null, node |-> type.node, cur |-> type.cur,
            diags |-> type.diags]])
    ELSE [ok |-> TRUE, node |-> Null, cur |-> cur, diags |-> <<>>]

\* if (match(EQUALS)) { initializer = parseExpression(); if (!initializer)
\* return nullptr; }
initializer(toks, cur) ==
  IF check(toks, cur, "EQUALS")
    THEN With([init \in {parseExpression(toks, advance(toks, cur))} |->
           [ok |-> init.node # Null, node |-> init.node, cur |-> init.cur,
            diags |-> init.diags]])
    ELSE [ok |-> TRUE, node |-> Null, cur |-> cur, diags |-> <<>>]

\* DeclarationParseVisitor::parseDeclaration, the let / const branch, with
\* the cursor on the keyword
parseVarDeclaration(toks, cur) ==
  IF ~check(toks, advance(toks, cur), "IDENTIFIER")
    THEN Failed(advance(toks, cur), <<"Expected variable name">>)
    ELSE With([type \in {typeAnnotation(toks, advance(toks, advance(toks, cur)))} |->
      IF ~type.ok THEN Failed(type.cur, type.diags)
      ELSE With([init \in {initializer(toks, type.cur)} |->
        IF ~init.ok THEN Failed(init.cur, type.diags \o init.diags)
        ELSE IF init.node = Null /\ peek(toks, cur) = "CONST"
          THEN Failed(init.cur,
                      type.diags
                        \o <<"Const declarations must have an initializer">>)
        ELSE closeWith(toks, [init EXCEPT !.diags = type.diags \o @],
                       "SEMICOLON",
                       "Expected ';' after variable declaration",
                       LAMBDA i : [kind |-> "VarDecl",
                                   isConst |-> peek(toks, cur) = "CONST",
                                   initializer |-> i.node])])])

\* What a parse function hands back to the loop that called it: the result
\* of a construct that is parsed in one go (tag "done"), or the cursor
\* behind the '{' of a block or class body whose loop runs next, with the
\* callers around it that wait for what it returns, innermost first
Done(res) == [tag |-> "done", res |-> res]

Enter(tag, cur) ==
  [tag |-> tag, res |-> Parsed(Null, cur, <<>>), around |-> <<>>]

\* a step of a parse function that builds no node of its own: did it
\* succeed, where is the cursor, what did it report
Step(ok, cur, diags) == [ok |-> ok, cur |-> cur, diags |-> diags]

\* step, then F at the cursor it left unless it failed
AndThen(step, next) ==
  IF ~step.ok THEN step ELSE [next EXCEPT !.diags = step.diags \o @]

\* the header of a declaration is parsed: its body loop runs at the cursor,
\* or the declaration is the nullptr
declarationHead(tag, step) ==
  IF step.ok THEN [Enter(tag, step.cur) EXCEPT !.res.diags = step.diags]
  ELSE Done(Failed(step.cur, step.diags))

\* a type that has to follow: parseType(); if (!type) return nullptr;
typeStep(toks, cur) ==
  With([type \in {parseType(toks, cur)} |->
    Step(type.node # Null, type.cur, type.diags)])

\* do { parseType() } while (match(COMMA))
RECURSIVE typeList(_, _)
typeList(toks, cur) ==
  With([s \in {typeStep(toks, cur)} |->
    AndThen(s, IF check(toks, s.cur, "COMMA") THEN typeList(toks, advance(toks, s.cur))
    ELSE Step(TRUE, s.cur, <<>>))])

\* if (match(COLON)) { returnType = parseType(); if (!returnType) return
\* nullptr; }
optionalType(toks, cur) ==
  IF check(toks, cur, "COLON") THEN typeStep(toks, advance(toks, cur))
  ELSE Step(TRUE, cur, <<>>)

\* if (!check(type)) { error(message); return nullptr; }
expect(toks, cur, type, message) ==
  IF check(toks, cur, type) THEN Step(TRUE, cur, <<>>)
  ELSE Step(FALSE, cur, <<message>>)

\* the synchronize() of ClassDeclarationVisitor
ClassSyncKinds ==
  {"CLASS", "FUNCTION", "CONSTRUCTOR", "LET", "CONST", "PUBLIC", "PRIVATE",
   "PROTECTED", "GET", "SET", "RIGHT_BRACE"}

Class_synchronize(toks, cur) ==
  syncLoop(toks, advance(toks, cur), ClassSyncKinds)

\* ClassDeclarationVisitor::parseGenericParams, called behind the '<'
RECURSIVE parseGenericParams(_, _)
RECURSIVE genericConstraints(_, _)

\* while (match(AMPERSAND)) { parseType() }
genericConstraints(toks, cur) ==
  IF check(toks, cur, "AMPERSAND")
    THEN With([s \in {typeStep(toks, advance(toks, cur))} |->
           AndThen(s, genericConstraints(toks, s.cur))])
    ELSE Step(TRUE, cur, <<>>)

parseGenericParams(toks, cur) ==
  IF ~check(toks, cur, "IDENTIFIER")
    THEN Step(FALSE, cur, <<"Expected generic parameter name">>)
  ELSE With([s \in {IF check(toks, advance(toks, cur), "EXTENDS")
                 THEN With([s \in {typeStep(toks,
                                       advance(toks, advance(toks, cur)))} |->
                        AndThen(s, genericConstraints(toks, s.cur))])
                 ELSE Step(TRUE, advance(toks, cur), <<>>)} |->
         AndThen(s, IF check(toks, s.cur, "COMMA")
           THEN parseGenericParams(toks, advance(toks, s.cur))
           ELSE consume(toks, s.cur, "GREATER",
                        "Expected '>' after generic parameters"))])

\* a type that has to follow in the head of a class: when parseType()
\* fails, error(message) is reported behind its own message
classHeadType(toks, cur, message) ==
  With([type \in {typeStep(toks, cur)} |->
    IF type.ok THEN type
    ELSE [type EXCEPT !.diags = Append(@, message)]])

\* do { parseType() } while (match(COMMA)) behind 'implements'
RECURSIVE implementsList(_, _)
implementsList(toks, cur) ==
  With([s \in {classHeadType(toks, cur,
                        "Expected interface name after 'implements'")} |->
    AndThen(s, IF check(toks, s.cur, "COMMA") THEN implementsList(toks, advance(toks, s.cur))
    ELSE Step(TRUE, s.cur, <<>>))])

\* ClassDeclarationVisitor::parseClassDecl up to the member loop
parseClassDeclHead(toks, cur) ==
  IF ~check(toks, cur, "CLASS")
    THEN Done(Failed(cur, <<"Expected 'class' keyword">>))
  ELSE IF ~check(toks, advance(toks, cur), "IDENTIFIER")
    THEN Done(Failed(advance(toks, cur),
                     <<"Expected class name after 'class'">>))
  ELSE declarationHead("class",
    With([s1 \in {IF check(toks, advance(toks, advance(toks, cur)), "LESS")
              THEN parseGenericParams(toks,
                     advance(toks, advance(toks, advance(toks, cur))))
              ELSE Step(TRUE, advance(toks, advance(toks, cur)), <<>>)} |->
      AndThen(s1, With([s2 \in {IF check(toks, s1.cur, "EXTENDS")
                THEN classHeadType(toks, advance(toks, s1.cur),
                       "Expected base class type after 'extends'")
                ELSE Step(TRUE, s1.cur, <<>>)} |->
        AndThen(s2, With([s3 \in {IF check(toks, s2.cur, "IMPLEMENTS")
                  THEN implementsList(toks, advance(toks, s2.cur))
                  ELSE Step(TRUE, s2.cur, <<>>)} |->
          AndThen(s3, consume(toks, s3.cur, "LEFT_BRACE",
                  "Expected '{' before class body"))]))]))]))

\* FunctionDeclarationVisitor::parseParameter
parseParameter(toks, cur) ==
  IF ~check(toks, cur, "IDENTIFIER")
    THEN Step(FALSE, cur, <<"Expected parameter name">>)
    ELSE With([s \in {consume(toks, advance(toks, cur), "COLON",
                         "Expected ':' after parameter name")} |->
           AndThen(s, typeStep(toks, s.cur))])

\* the parameters of parseFuncDecl: the first parameter, then
\* while (match(COMMA)) { .. parseParameter() .. }
RECURSIVE parseParameters(_, _)
parseParameters(toks, cur) ==
  With([s \in {parseParameter(toks, cur)} |->
    AndThen(s, IF ~check(toks, s.cur, "COMMA") THEN Step(TRUE, s.cur, <<>>)
    ELSE IF check(toks, advance(toks, s.cur), "RIGHT_PAREN")
      THEN Step(FALSE, advance(toks, s.cur), <<"Expected parameter after ','">>)
    ELSE parseParameters(toks, advance(toks, s.cur)))])

\* FunctionDeclarationVisitor::parseFuncDecl up to the body: the '{' is
\* matched and parseBlock() runs behind it
parseFuncDecl(toks, cur) ==
  IF ~check(toks, cur, "FUNCTION")
    THEN Done(Failed(cur, <<"Expected 'function' keyword">>))
  ELSE IF ~check(toks, advance(toks, cur), "IDENTIFIER")
    THEN Done(Failed(advance(toks, cur), <<"Expected function name">>))
  ELSE declarationHead("function",
    With([s1 \in {consume(toks, advance(toks, advance(toks, cur)), "LEFT_PAREN",
                    "Expected '(' after function name")} |->
      AndThen(s1, With([s2 \in {IF check(toks, s1.cur, "RIGHT_PAREN") THEN Step(TRUE, s1.cur, <<>>)
              ELSE parseParameters(toks, s1.cur)} |->
        AndThen(s2, With([s3 \in {consume(toks, s2.cur, "RIGHT_PAREN",
                        "Expected ')' after parameters")} |->
          AndThen(s3, With([s4 \in {optionalType(toks, s3.cur)} |->
            AndThen(s4, consume(toks, s4.cur, "LEFT_BRACE",
                    "Expected '{' before function body"))]))]))]))]))

\* ClassDeclarationVisitor::parseSingleParameter
parseSingleParameter(toks, cur) ==
  With([c0 \in {match(toks, match(toks, cur, "REF").cur, "CONST").cur} |->
    IF ~check(toks, c0, "IDENTIFIER")
      THEN Step(FALSE, c0, <<"Expected parameter name">>)
      ELSE With([s1 \in {optionalType(toks, advance(toks, c0))} |->
             AndThen(s1, With([defaultValue \in {initializer(toks, s1.cur)} |->
               Step(defaultValue.ok, defaultValue.cur,
                    defaultValue.diags)]))])])

\* ClassDeclarationVisitor::parseParameterList
RECURSIVE parseParameterList(_, _)
parseParameterList(toks, cur) ==
  IF check(toks, cur, "RIGHT_PAREN") \/ isAtEnd(toks, cur)
    THEN Step(TRUE, cur, <<>>)
    ELSE With([param \in {parseSingleParameter(toks, cur)} |->
           IF ~param.ok
             THEN Step(FALSE, Class_synchronize(toks, param.cur), param.diags)
           ELSE IF check(toks, param.cur, "COMMA")
             THEN With([rest \in {parseParameterList(toks,
                                     advance(toks, param.cur))} |->
                    [rest EXCEPT !.diags = param.diags \o @]])
           ELSE param])

\* if (!check(RIGHT_PAREN)) { if (!parseParameterList(parameters)) return
\* nullptr; } and the ')' behind it
classParameters(toks, cur, afterParameters) ==
  With([s \in {IF check(toks, cur, "RIGHT_PAREN") THEN Step(TRUE, cur, <<>>)
          ELSE parseParameterList(toks, cur)} |->
    AndThen(s, consume(toks, s.cur, "RIGHT_PAREN", afterParameters))])

\* ClassDeclarationVisitor::parseField
parseField(toks, cur) ==
  IF ~(check(toks, cur, "LET") \/ check(toks, cur, "CONST"))
    THEN Failed(cur, <<"Expected 'let' or 'const' in field declaration">>)
  ELSE IF ~check(toks, advance(toks, cur), "IDENTIFIER")
    THEN Failed(advance(toks, cur), <<"Expected field name">>)
  ELSE With([type \in {typeAnnotation(toks, advance(toks, advance(toks, cur)))} |->
    IF ~type.ok THEN Failed(type.cur, type.diags)
    ELSE With([init \in {initializer(toks, type.cur)} |->
      IF ~init.ok THEN Failed(init.cur, type.diags \o init.diags)
      ELSE closeWith(toks, [init EXCEPT !.diags = type.diags \o @],
                     "SEMICOLON", "Expected ';' after field declaration",
                     LAMBDA i : [kind |-> "FieldDecl",
                                 initializer |-> i.node])])])

\* ClassDeclarationVisitor::parseConstructor up to the body: the '{' is
\* checked, not consumed, and parseBlock() runs with the cursor on it
parseConstructor(toks, cur) ==
  declarationHead("constructor",
    With([s1 \in {consume(toks, cur, "CONSTRUCTOR",
                    "Expected 'constructor' keyword")} |->
      AndThen(s1, With([s2 \in {consume(toks, s1.cur, "LEFT_PAREN",
                      "Expected '(' after 'constructor'")} |->
        AndThen(s2, With([s3 \in {classParameters(toks, s2.cur,
                  "Expected ')' after constructor parameters")} |->
          AndThen(s3, expect(toks, s3.cur, "LEFT_BRACE",
                 "Expected '{' before constructor body"))]))]))]))

\* if (match(THROWS)) { do { parseType() } while (match(COMMA)); }
throwsClause(toks, cur) ==
  IF check(toks, cur, "THROWS") THEN typeList(toks, advance(toks, cur))
  ELSE Step(TRUE, cur, <<>>)

\* ClassDeclarationVisitor::parseMethod up to the body: the '{' is checked,
\* not consumed, and parseBlock() runs with the cursor on it
parseMethod(toks, cur) ==
  declarationHead("method",
    With([s1 \in {consume(toks, cur, "FUNCTION", "Expected 'function' keyword")} |->
      AndThen(s1, With([s2 \in {consume(toks, s1.cur, "IDENTIFIER",
                      "Expected method name after 'function'")} |->
        AndThen(s2, With([s3 \in {consume(toks, s2.cur, "LEFT_PAREN",
                        "Expected '(' after method name")} |->
          AndThen(s3, With([s4 \in {classParameters(toks, s3.cur,
                                       "Expected ')' after parameters")} |->
            AndThen(s4, With([s5 \in {optionalType(toks, s4.cur)} |->
              AndThen(s5, With([s6 \in {throwsClause(toks, s5.cur)} |->
                AndThen(s6, expect(toks, s6.cur, "LEFT_BRACE",
                       "Expected '{' before method body"))]))]))]))]))]))]))

\* ClassDeclarationVisitor::parsePropertyGetter up to the body
parsePropertyGetter(toks, cur) ==
  declarationHead("getter",
    With([s1 \in {consume(toks, cur, "GET", "Expected 'get' keyword")} |->
      AndThen(s1, With([s2 \in {consume(toks, s1.cur, "IDENTIFIER",
                      "Expected property name after 'get'")} |->
        AndThen(s2, With([s3 \in {IF check(toks, s2.cur, "LEFT_PAREN")
                  THEN consume(toks, advance(toks, s2.cur), "RIGHT_PAREN",
                               "Expected empty parameter list for getter")
                  ELSE Step(TRUE, s2.cur, <<>>)} |->
          AndThen(s3, With([s4 \in {optionalType(toks, s3.cur)} |->
            AndThen(s4, expect(toks, s4.cur, "LEFT_BRACE",
                   "Expected '{' after property getter declaration"))]))]))]))]))

\* ClassDeclarationVisitor::parsePropertySetter up to the body
parsePropertySetter(toks, cur) ==
  declarationHead("setter",
    With([s1 \in {consume(toks, cur, "SET", "Expected 'set' keyword")} |->
      AndThen(s1, With([s2 \in {consume(toks, s1.cur, "IDENTIFIER",
                      "Expected property name after 'set'")} |->
        AndThen(s2, With([s3 \in {consume(toks, s2.cur, "LEFT_PAREN",
                        "Expected '(' after property setter name")} |->
          AndThen(s3, With([s4 \in {consume(toks, s3.cur, "IDENTIFIER",
                          "Expected parameter name in setter")} |->
            AndThen(s4, With([s5 \in {optionalType(toks, s4.cur)} |->
              AndThen(s5, With([s6 \in {consume(toks, s5.cur, "RIGHT_PAREN",
                              "Expected ')' after setter parameter")} |->
                AndThen(s6, expect(toks, s6.cur, "LEFT_BRACE",
                       "Expected '{' after setter parameter list"))]))]))]))]))]))]))

\* ClassDeclarationVisitor::parseMemberDecl
parseMemberDecl(toks, cur) ==
  LET c0 == IF \E k \in {"PUBLIC", "PRIVATE", "PROTECTED"} :
                  check(toks, cur, k)
              THEN advance(toks, cur) ELSE cur
  IN IF check(toks, c0, "CONSTRUCTOR") THEN parseConstructor(toks, c0)
     ELSE IF check(toks, c0, "FUNCTION") THEN parseMethod(toks, c0)
     ELSE IF check(toks, c0, "LET") \/ check(toks, c0, "CONST")
       THEN Done(parseField(toks, c0))
     ELSE IF check(toks, c0, "GET") THEN parsePropertyGetter(toks, c0)
     ELSE IF check(toks, c0, "SET") THEN parsePropertySetter(toks, c0)
     ELSE Done(Failed(c0, <<"Expected class member declaration">>))

\* tokens::isFunctionModifier (token_type.h is not among the sources): the
\* function modifiers that section 3.3 of the specification lists
isFunctionModifier(type) ==
  type \in {"INLINE", "VIRTUAL", "UNSAFE", "SIMD", "ASYNC"}

\* DeclarationParseVisitor::parseFunctionModifiers : the cursor behind the
\* modifiers
RECURSIVE parseFunctionModifiers(_, _)
parseFunctionModifiers(toks, cur) ==
  IF peek(toks, cur) \in {"INLINE", "VIRTUAL", "UNSAFE", "SIMD"}
       \/ isFunctionModifier(peek(toks, cur))
    THEN parseFunctionModifiers(toks, advance(toks, cur))
    ELSE cur

\* DeclarationParseVisitor::parseDeclaration behind the access modifier
parseAccessMember(toks, cur) ==
  IF check(toks, cur, "FUNCTION") THEN parseMethod(toks, cur)
  ELSE IF check(toks, cur, "GET") THEN parsePropertyGetter(toks, cur)
  ELSE IF check(toks, cur, "SET") THEN parsePropertySetter(toks, cur)
  ELSE IF check(toks, cur, "LET") \/ check(toks, cur, "CONST")
    THEN Done(parseField(toks, cur))
  ELSE Done(Failed(cur, <<"Expected class member declaration after access modifier">>))

\* DeclarationParseVisitor::parseDeclaration behind the storage modifier
\* and the class modifier
parseModifiedDeclaration(toks, cur) ==
  With([c \in {parseFunctionModifiers(toks, cur)} |->
    IF check(toks, c, "FUNCTION") \/ check(toks, c, "ASYNC")
      THEN parseFuncDecl(toks, c)
    ELSE IF check(toks, c, "CLASS") THEN parseClassDeclHead(toks, c)
    ELSE IF check(toks, c, "LET") \/ check(toks, c, "CONST")
      THEN Done(parseVarDeclaration(toks, c))
    ELSE Done(Failed(c, <<"Expected declaration">>))])

\* DeclarationParseVisitor::parseDeclaration.  The parse functions report
\* at the locations of the tokens: those the lexer gives (column >= 1), or
\* the location (0, 0) of the END_OF_FILE the TokenStream appends, for which
\* no line is loaded.  ErrorReporter::error does not throw there, and the
\* catch clause is not entered.
parseDeclaration(toks, cur) ==
  IF \E k \in {"PUBLIC", "PRIVATE", "PROTECTED"} : check(toks, cur, k)
    THEN parseAccessMember(toks, advance(toks, cur))
  ELSE IF check(toks, cur, "CONSTRUCTOR") THEN parseConstructor(toks, cur)
  ELSE IF check(toks, cur, "GET") THEN parsePropertyGetter(toks, cur)
  ELSE IF check(toks, cur, "SET") THEN parsePropertySetter(toks, cur)
  ELSE With([c0 \in {IF \E k \in {"STACK", "HEAP", "STATIC"} : check(toks, cur, k)
              THEN advance(toks, cur) ELSE cur} |->
    IF \E k \in {"ALIGNED", "PACKED", "ABSTRACT"} : check(toks, c0, k)
      THEN IF check(toks, advance(toks, c0), "CLASS")
             THEN parseClassDeclHead(toks, advance(toks, c0))
             ELSE parseModifiedDeclaration(toks, advance(toks, c0))
      ELSE parseModifiedDeclaration(toks, c0)])

\* StatementParseVisitor::parseExpressionStatement
parseExpressionStatement(toks, cur) ==
  With([expr \in {parseExpression(toks, cur)} |->
    IF expr.node = Null THEN expr
    ELSE closeWith(toks, expr, "SEMICOLON", "Expected ';' after expression",
                   LAMBDA e : [kind |-> "ExpressionStmt",
                               expression |-> e.node])])

\* BranchStatementVisitor::parseSwitchStatement, called after the 'switch'
parseSwitchStatement(toks, cur) == Failed(cur, <<>>)

\* StatementParseVisitor::isDeclarationStart (statement_parse_visitor.h)
Statement_isDeclarationStart(toks, cur) ==
  \E k \in {"LET", "CONST", "FUNCTION", "STACK", "HEAP", "STATIC"} :
    check(toks, cur, k)

\* StatementParseVisitor::parseDeclarationStatement
parseDeclarationStatement(toks, cur) ==
  With([decl \in {parseDeclaration(toks, cur)} |->
    IF decl.tag # "done"
      THEN [decl EXCEPT !.around = Append(@, "DeclarationStmt")]
    ELSE IF decl.res.node = Null THEN decl
    ELSE Done(Parsed([kind |-> "DeclarationStmt",
                      declaration |-> decl.res.node],
                     decl.res.cur, decl.res.diags))])

\* the synchronize() of the orchestrator and of statement_parse_visitor.h
SyncKinds == {"CLASS", "FUNCTION", "LET", "CONST", "IF", "WHILE", "RETURN"}

\* the synchronize() of statement_parse_visitor.cpp
SyncKindsCpp == SyncKinds \cup {"FOR"}

BaseParseVisitor_synchronize(toks, cur) ==
  syncLoop(toks, advance(toks, cur), SyncKinds)

Statement_synchronize(impl, toks, cur) ==
  syncLoop(toks, advance(toks, cur),
           IF impl = "h" THEN SyncKinds ELSE SyncKindsCpp)

\* consume(LEFT_PAREN, open); parseExpression(); consume(RIGHT_PAREN, ..):
\* the condition of an if, a while and a do-while statement
parenthesized(toks, cur, open) ==
  With([s1 \in {consume(toks, cur, "LEFT_PAREN", open)} |->
    AndThen(s1, With([expr \in {parseExpression(toks, s1.cur)} |->
      AndThen(Step(expr.node # Null, expr.cur, expr.diags),
              consume(toks, expr.cur, "RIGHT_PAREN",
                      "Expected ')' after condition"))]))])

\* FlowControlVisitor::parseReturn, called behind 'return'
parseReturn(toks, cur) ==
  With([value \in {IF check(toks, cur, "SEMICOLON")
                     THEN Parsed([kind |-> "none"], cur, <<>>)
                     ELSE parseExpression(toks, cur)} |->
    IF value.node = Null THEN value
    ELSE closeWith(toks, value, "SEMICOLON",
                   "Expected ';' after return statement",
                   LAMBDA v : [kind |-> "ReturnStmt", value |-> v.node])])

\* FlowControlVisitor::parseBreak and parseContinue, called behind the
\* keyword: an optional label, then the ';'
parseJump(toks, cur, kind, message) ==
  closeWith(toks, Parsed([kind |-> kind], match(toks, cur, "IDENTIFIER").cur,
                         <<>>),
            "SEMICOLON", message, LAMBDA jump : jump.node)

parseBreak(toks, cur) ==
  parseJump(toks, cur, "BreakStmt", "Expected ';' after break statement")

parseContinue(toks, cur) ==
  parseJump(toks, cur, "ContinueStmt",
            "Expected ';' after continue statement")

\* FlowControlVisitor::parseThrow, called behind 'throw'
parseThrow(toks, cur) ==
  With([value \in {parseExpression(toks, cur)} |->
    IF value.node = Null THEN value
    ELSE closeWith(toks, value, "SEMICOLON",
                   "Expected ';' after throw statement",
                   LAMBDA v : [kind |-> "ThrowStmt", value |-> v.node])])

\* while (match(COMMA)) { if (!match(STRING_LITERAL)) { error(..); return
\* nullptr; } .. }
RECURSIVE asmConstraints(_, _)
asmConstraints(toks, cur) ==
  IF ~check(toks, cur, "COMMA") THEN Step(TRUE, cur, <<>>)
  ELSE IF ~check(toks, advance(toks, cur), "STRING_LITERAL")
    THEN Step(FALSE, advance(toks, cur), <<"Expected constraint string">>)
  ELSE asmConstraints(toks, advance(toks, advance(toks, cur)))

\* StatementParseVisitor::parseAssemblyStatement (statement_parse_visitor.cpp),
\* called with the cursor behind the ATTRIBUTE, on the token asm
parseAssemblyStatement(toks, cur) ==
  With([s \in {With([s1 \in {consume(toks, cur, "LEFT_PAREN",
                                      "Expected '(' after '#asm'")} |->
    AndThen(s1, With([s2 \in {consume(toks, s1.cur, "STRING_LITERAL",
                    "Expected string literal containing assembly code")} |->
      AndThen(s2, With([s3 \in {asmConstraints(toks, s2.cur)} |->
        AndThen(s3, With([s4 \in {consume(toks, s3.cur, "RIGHT_PAREN",
                        "Expected ')' after assembly code")} |->
          AndThen(s4, consume(toks, s4.cur, "SEMICOLON",
                  "Expected ';' after assembly statement"))]))]))]))])} |->
    IF s.ok THEN Parsed([kind |-> "AssemblyStmt"], s.cur, s.diags)
    ELSE Failed(s.cur, s.diags)])

\* e.what() of the std::bad_function_call that the call of an empty
\* std::function throws, behind the prefix of the catch clause of
\* parseStatement()
ErrorParsingStatement(impl) ==
  IF impl = "h" THEN "Error parsing statement: bad_function_call"
  ELSE "Unexpected error while parsing statement: bad_function_call"

\* TryCatchStatementVisitor::parseCatchClause up to the body, called behind
\* 'catch'.  Neither constructor of StatementParseVisitor hands the visitor
\* a callback for types: parseType_ is empty, and the call of it behind the
\* ':' throws
parseCatchClause(toks, cur) ==
  With([s1 \in {consume(toks, cur, "LEFT_PAREN",
                        "Expected '(' after 'catch'")} |->
    IF ~s1.ok
      THEN [ok |-> FALSE, cur |-> s1.cur, thrown |-> FALSE,
            diags |-> s1.diags]
    ELSE IF ~check(toks, s1.cur, "IDENTIFIER")
      THEN [ok |-> FALSE, cur |-> s1.cur, thrown |-> FALSE,
            diags |-> <<"Expected catch parameter name">>]
    ELSE IF check(toks, advance(toks, s1.cur), "COLON")
      THEN [ok |-> FALSE, cur |-> advance(toks, advance(toks, s1.cur)),
            thrown |-> TRUE, diags |-> <<>>]
    ELSE With([s2 \in {consume(toks, advance(toks, s1.cur), "RIGHT_PAREN",
                               "Expected ')' after catch parameter")} |->
           [ok |-> s2.ok, cur |-> s2.cur, thrown |-> FALSE,
            diags |-> s2.diags]])])

RECURSIVE parseStatement(_, _, _)
RECURSIVE after(_, _, _, _)

\* auto body = stmtVisitor_.parseStatement(); behind a header that reported
\* diags and left the cursor at cur.  item tells what the caller does with
\* the statement it gets (after); a block comes back when its loop has
\* run, and the caller waits around it
subStatement(impl, toks, cur, diags, item) ==
  With([body \in {parseStatement(impl, toks, cur)} |->
    IF body.tag = "done"
      THEN after(impl, toks, item, [body.res EXCEPT !.diags = diags \o @])
      ELSE [body EXCEPT !.around = Append(@, item),
                        !.res.diags = diags \o @]])

\* LoopStatementVisitor::parseDoWhileStatement behind the body
doWhileTail(toks, body) ==
  With([s \in {With([s1 \in {consume(toks, body.cur, "WHILE",
                                      "Expected 'while' after do block")} |->
    AndThen(s1, With([s2 \in {parenthesized(toks, s1.cur,
                                        "Expected '(' after 'while'")} |->
      AndThen(s2, consume(toks, s2.cur, "SEMICOLON",
              "Expected ';' after do-while statement"))]))])} |->
    IF s.ok THEN Parsed([kind |-> "DoWhileStmt", body |-> body.node.kind],
                        s.cur, body.diags \o s.diags)
    ELSE Failed(s.cur, body.diags \o s.diags)])

\* what a caller does behind a sub-statement: it returns res, or it calls
\* parseStatement() once more, at the cursor of res and behind the messages
\* of res, and waits for that statement as item
Returns(res) == [more |-> FALSE, item |-> "", res |-> res]

ParsesNext(item, cur, diags) ==
  [more |-> TRUE, item |-> item, res |-> Failed(cur, diags)]

\* TryCatchStatementVisitor::parseTryStatement behind the try block and
\* behind the body of a catch clause: while (match(CATCH)), the finally
\* block and the node.  An exception leaves through the catch clause of the
\* parseStatement() that called parseTryStatement().
catchClauses(impl, toks, cur, diags, hasCatch) ==
  IF check(toks, cur, "CATCH")
    THEN With([clause \in {parseCatchClause(toks, advance(toks, cur))} |->
      IF clause.thrown
        THEN Returns(Failed(Statement_synchronize(impl, toks, clause.cur),
                            Append(diags, ErrorParsingStatement(impl))))
      ELSE IF ~clause.ok
        THEN Returns(Failed(clause.cur, diags \o clause.diags))
      ELSE ParsesNext("TryStmt.catch", clause.cur, diags)])
  ELSE IF check(toks, cur, "FINALLY")
    THEN ParsesNext("TryStmt.finally", advance(toks, cur), diags)
  ELSE IF ~hasCatch
    THEN Returns(Failed(cur, Append(diags,
           "Try statement must have at least one catch or finally clause")))
  ELSE Returns(Parsed([kind |-> "TryStmt", finallyBlock |-> "none"],
                      cur, diags))

\* what the caller of parseStatement() or parseDeclaration() that waits as
\* item does with the statement, or the nullptr, it gets
continuation(impl, toks, item, res) ==
  IF res.node = Null THEN Returns(res)
  ELSE IF item = "DeclarationStmt"
    THEN Returns(Parsed([kind |-> "DeclarationStmt",
                         declaration |-> res.node], res.cur, res.diags))
  ELSE IF item \in {"WhileStmt", "ForStmt", "ForOfStmt"}
    THEN Returns(Parsed([kind |-> item, body |-> res.node.kind],
                        res.cur, res.diags))
  ELSE IF item = "DoWhileStmt" THEN Returns(doWhileTail(toks, res))
  ELSE IF item = "IfStmt.then"
    THEN IF check(toks, res.cur, "ELSE")
           THEN ParsesNext("IfStmt.else", advance(toks, res.cur), res.diags)
           ELSE Returns(Parsed([kind |-> "IfStmt", elseBranch |-> "none"],
                               res.cur, res.diags))
  ELSE IF item = "IfStmt.else"
    THEN Returns(Parsed([kind |-> "IfStmt", elseBranch |-> res.node.kind],
                        res.cur, res.diags))
  ELSE IF item \in {"TryStmt.try", "TryStmt.catch"}
    THEN catchClauses(impl, toks, res.cur, res.diags, item = "TryStmt.catch")
  ELSE Returns(Parsed([kind |-> "TryStmt", finallyBlock |-> res.node.kind],
                      res.cur, res.diags))

\* the caller that waits as item goes on behind the statement it gets
after(impl, toks, item, res) ==
  With([next \in {continuation(impl, toks, item, res)} |->
    IF next.more
      THEN subStatement(impl, toks, next.res.cur, next.res.diags, next.item)
      ELSE Done(next.res)])

\* the callers that wait around a block, a body or a class, from the i-th
\* on: each gets what the one inside it returned, until one of them parses
\* a block of its own
RECURSIVE resume(_, _, _, _, _)
resume(impl, toks, parsed, around, i) ==
  IF i > Len(around) THEN parsed
  ELSE IF parsed.tag # "done"
    THEN [parsed EXCEPT !.around = @ \o SubSeq(around, i, Len(around))]
  ELSE resume(impl, toks, after(impl, toks, around[i], parsed.res), around,
              i + 1)

\* BranchStatementVisitor::parseIfStatement, called behind 'if'
parseIfStatement(impl, toks, cur) ==
  With([s \in {parenthesized(toks, cur, "Expected '(' after 'if'")} |->
    IF ~s.ok THEN Done(Failed(s.cur, s.diags))
    ELSE subStatement(impl, toks, s.cur, s.diags, "IfStmt.then")])

\* LoopStatementVisitor::parseWhileStatement, called behind 'while'
parseWhileStatement(impl, toks, cur) ==
  With([s \in {parenthesized(toks, cur, "Expected '(' after 'while'")} |->
    IF ~s.ok THEN Done(Failed(s.cur, s.diags))
    ELSE subStatement(impl, toks, s.cur, s.diags, "WhileStmt")])

\* LoopStatementVisitor::parseDoWhileStatement, called behind 'do'
parseDoWhileStatement(impl, toks, cur) ==
  subStatement(impl, toks, cur, <<>>, "DoWhileStmt")

\* TryCatchStatementVisitor::parseTryStatement, called behind 'try'
parseTryStatement(impl, toks, cur) ==
  subStatement(impl, toks, cur, <<>>, "TryStmt.try")

\* LoopStatementVisitor::parseForOfStatement, called behind 'let' or 'const'
parseForOfStatement(impl, toks, cur) ==
  IF ~check(toks, cur, "IDENTIFIER")
    THEN Done(Failed(cur, <<"Expected variable name in for-of loop">>))
  ELSE IF ~check(toks, advance(toks, cur), "OF")
    THEN Done(Failed(advance(toks, cur),
                     <<"Expected 'of' after variable name">>))
  ELSE With([iterable \in {parseExpression(toks, advance(toks, advance(toks, cur)))} |->
    IF iterable.node = Null THEN Done(iterable)
    ELSE IF ~check(toks, iterable.cur, "RIGHT_PAREN")
      THEN Done(Failed(iterable.cur,
                       iterable.diags
                         \o <<"Expected ')' after for-of clause">>))
    ELSE subStatement(impl, toks, advance(toks, iterable.cur),
                      iterable.diags, "ForOfStmt")])

\* LoopStatementVisitor::parseForInitializer
parseForInitializer(toks, cur) ==
  IF check(toks, cur, "LET") \/ check(toks, cur, "CONST")
    THEN Failed(cur, <<>>)
    ELSE With([expr \in {parseExpression(toks, cur)} |->
           IF expr.node = Null THEN expr
           ELSE closeWith(toks, expr, "SEMICOLON",
                          "Expected ';' after loop initializer",
                          LAMBDA e : [kind |-> "ExpressionStmt",
                                      expression |-> e.node])])

\* the condition of the for header with its ';'
forCondition(toks, cur) ==
  With([condition \in {parseExpression(toks, cur)} |->
    IF condition.node = Null THEN condition
    ELSE closeWith(toks, condition, "SEMICOLON",
                   "Expected ';' after loop condition", LAMBDA c : c.node)])

\* LoopStatementVisitor::parseForStatement, called behind 'for'
parseForStatement(impl, toks, cur) ==
  IF ~check(toks, cur, "LEFT_PAREN")
    THEN Done(Failed(cur, <<"Expected '(' after 'for'">>))
  ELSE IF check(toks, advance(toks, cur), "LET")
            \/ check(toks, advance(toks, cur), "CONST")
    THEN parseForOfStatement(impl, toks, advance(toks, advance(toks, cur)))
  ELSE With([init \in {IF check(toks, advance(toks, cur), "SEMICOLON")
              THEN Parsed([kind |-> "none"],
                          advance(toks, advance(toks, cur)), <<>>)
              ELSE parseForInitializer(toks, advance(toks, cur))} |->
    IF init.node = Null THEN Done(init)
    ELSE With([condition \in {IF check(toks, init.cur, "SEMICOLON")
                THEN Parsed([kind |-> "none"], advance(toks, init.cur), <<>>)
                ELSE forCondition(toks, init.cur)} |->
      IF condition.node = Null
        THEN Done(Failed(condition.cur, init.diags \o condition.diags))
      ELSE With([increment \in {IF check(toks, condition.cur, "RIGHT_PAREN")
                  THEN Parsed([kind |-> "none"], condition.cur, <<>>)
                  ELSE parseExpression(toks, condition.cur)} |->
        IF increment.node = Null
          THEN Done(Failed(increment.cur,
                           init.diags \o condition.diags
                             \o increment.diags))
        ELSE IF ~check(toks, increment.cur, "RIGHT_PAREN")
          THEN Done(Failed(increment.cur,
                           init.diags \o condition.diags
                             \o increment.diags
                             \o <<"Expected ')' after for clauses">>))
        ELSE subStatement(impl, toks, advance(toks, increment.cur),
                          init.diags \o condition.diags \o increment.diags,
                          "ForStmt")])])])

\* StatementParseVisitor::parseStatement; impl tells the definition in
\* statement_parse_visitor.h ("h"), which has the declaration branch, from
\* the one in statement_parse_visitor.cpp ("cpp"), which has the branch of
\* the assembly statement: match(ATTRIBUTE) consumes the attribute whatever
\* the lexeme behind it is
parseStatement(impl, toks, cur) ==
  IF impl = "h" /\ Statement_isDeclarationStart(toks, cur)
    THEN parseDeclarationStatement(toks, cur)
  ELSE IF check(toks, cur, "LEFT_BRACE")
    THEN Enter("block", advance(toks, cur))
  ELSE IF check(toks, cur, "IF")
    THEN parseIfStatement(impl, toks, advance(toks, cur))
  ELSE IF check(toks, cur, "SWITCH")
    THEN Done(parseSwitchStatement(toks, advance(toks, cur)))
  ELSE IF check(toks, cur, "WHILE")
    THEN parseWhileStatement(impl, toks, advance(toks, cur))
  ELSE IF check(toks, cur, "DO")
    THEN parseDoWhileStatement(impl, toks, advance(toks, cur))
  ELSE IF check(toks, cur, "FOR")
    THEN parseForStatement(impl, toks, advance(toks, cur))
  ELSE IF check(toks, cur, "TRY")
    THEN parseTryStatement(impl, toks, advance(toks, cur))
  ELSE IF check(toks, cur, "RETURN")
    THEN Done(parseReturn(toks, advance(toks, cur)))
  ELSE IF check(toks, cur, "BREAK")
    THEN Done(parseBreak(toks, advance(toks, cur)))
  ELSE IF check(toks, cur, "CONTINUE")
    THEN Done(parseContinue(toks, advance(toks, cur)))
  ELSE IF check(toks, cur, "THROW")
    THEN Done(parseThrow(toks, advance(toks, cur)))
  ELSE IF impl = "cpp" /\ check(toks, cur, "ATTRIBUTE")
    THEN IF getLexeme(peek(toks, advance(toks, cur))) = "asm"
           THEN Done(parseAssemblyStatement(toks, advance(toks, cur)))
           ELSE Done(parseExpressionStatement(toks, advance(toks, cur)))
  ELSE Done(parseExpressionStatement(toks, cur))

\* BaseParseVisitor::isDeclarationStart
BaseParseVisitor_isDeclarationStart(toks, cur) ==
  \/ \E k \in {"STACK", "HEAP", "STATIC", "ATTRIBUTE", "LET", "CONST",
               "FUNCTION", "CLASS"} : check(toks, cur, k)
  \/ isFunctionModifier(peek(toks, cur))

(***************************************************************************)
(* The loops of the parser.  The orchestrator loop of visitParse(), the    *)
(* statement loop of parseBlock() and the member loop of parseClassDecl()  *)
(* call one another; parser.frames is the stack of the block and class     *)
(* loops that are running, innermost last, and each action below is one    *)
(* iteration, or the exit, of the innermost loop.  The operators take and   *)
(* return a machine state M = [cur, diags, p]: the cursor, the diagnostics *)
(* reported so far and the parser record.                                   *)
(***************************************************************************)
NoIter ==
  [complete |-> FALSE, produced |-> FALSE, reported |-> 0,
   synchronized |-> FALSE]

NoStep == [loop |-> "none", from |-> 0]

\* ParseVisitor as constructed; impl is the definition of
\* StatementParseVisitor the build links
\* BaseVisitor owns the parse visitor and ast_, the AST it hands out;
\* getASTCalls counts the calls of getAST()
ParserCtor(impl) ==
  [impl |-> impl, nodes_ |-> <<>>, hadError |-> FALSE, frames |-> <<>>,
   done |-> FALSE, result |-> FALSE, iterStart |-> 0, lastIter |-> NoIter,
   step |-> NoStep, ast_ |-> <<>>, getASTCalls |-> 0]

\* parser::AST::addNode
addNode(ast, node) == Append(ast, node)

\* BaseVisitor::getAST: for (const auto &node : nodes) ast_.addNode(node);
RECURSIVE addNodesFrom(_, _, _)
addNodesFrom(ast, nodes, i) ==
  IF i > Len(nodes) THEN ast
  ELSE addNodesFrom(addNode(ast, nodes[i]), nodes, i + 1)

getAST(P) ==
  [P EXCEPT !.ast_ = addNodesFrom(@, P.nodes_, 1), !.getASTCalls = @ + 1]

\* BaseVisitor::addNode
BaseVisitor_addNode(P, node) == [P EXCEPT !.ast_ = addNode(@, node)]

\* a loop that is running: the construct whose body it parses, the number
\* of statements or members it has collected, open, the position of the
\* '{' of that body, and around, the callers that wait for the construct,
\* innermost first: the statements it is the body, a branch or a clause
\* of, and the declaration statement it is the declaration of
Frame(kind, open, around) ==
  [kind |-> kind, count |-> 0, open |-> open, around |-> around]

\* the callers of parseBlock(): a block statement, and the bodies of
\* functions, methods, constructors and property accessors
BlockLoops ==
  {"block", "function", "method", "constructor", "getter", "setter"}

\* the callers that leave the '{' of the body to parseBlock()
BraceLeft == {"method", "constructor", "getter", "setter"}

\* visitParse(): what the loop body does with the node, or the nullptr,
\* that parseDeclaration() or parseStatement() returned
visitParseResult(M, res, toks) ==
  LET diags == M.diags \o res.diags
      iter(produced) ==
        [complete |-> TRUE, produced |-> produced,
         reported |-> Len(diags) - M.p.iterStart,
         synchronized |-> ~produced]
  IN IF res.node = Null
       THEN [cur |-> BaseParseVisitor_synchronize(toks, res.cur),
             diags |-> diags,
             p |-> [M.p EXCEPT !.hadError = TRUE, !.lastIter = iter(FALSE)]]
       ELSE [cur |-> res.cur, diags |-> diags,
             p |-> [M.p EXCEPT !.nodes_ = Append(@, res.node.kind),
                               !.lastIter = iter(TRUE)]]

\* parseBlock(): what the loop body does with the statement, or the
\* nullptr, that parseStatement() returned
parseBlockResult(M, res, toks) ==
  LET top == Len(M.p.frames)
      diags == M.diags \o res.diags
  IN IF res.node # Null
       THEN [cur |-> res.cur, diags |-> diags,
             p |-> [M.p EXCEPT !.frames[top].count = @ + 1]]
     ELSE IF M.p.impl = "h"
       THEN [cur |-> Statement_synchronize("h", toks, res.cur),
             diags |-> diags, p |-> M.p]
     ELSE [cur |-> res.cur, diags |-> diags, p |-> M.p]

pop(M) == [M EXCEPT !.p.frames = SubSeq(@, 1, Len(@) - 1)]

RECURSIVE return(_, _, _)
RECURSIVE call(_, _, _)

\* parseClassDecl() behind its member loop: the class declaration goes to
\* the callers that wait around it
parseClassDeclEnd(M, toks) ==
  LET cur == IF check(toks, M.cur, "RIGHT_BRACE")
               THEN advance(toks, M.cur) ELSE M.cur
      node == [kind |-> "ClassDecl", members |-> Last(M.p.frames).count]
  IN call(pop(M),
          resume(M.p.impl, toks, Done(Parsed(node, cur, <<>>)),
                 Last(M.p.frames).around, 1),
          toks)

\* parseClassDecl(): what the member loop does with the member, or the
\* nullptr, that parseMemberDecl() returned
parseClassMemberResult(M, member, toks) ==
  IF member.node # Null
    THEN [cur |-> member.cur, diags |-> M.diags \o member.diags,
          p |-> [M.p EXCEPT !.frames[Len(M.p.frames)].count = @ + 1]]
    ELSE With([skipped \in {[cur |-> Class_synchronize(toks, member.cur),
               diags |-> M.diags \o member.diags, p |-> M.p]} |->
      IF check(toks, skipped.cur, "RIGHT_BRACE")
           \/ isAtEnd(toks, skipped.cur)
        THEN parseClassDeclEnd(skipped, toks)
        ELSE skipped])

\* the return of a parse function to the loop that called it
return(M, res, toks) ==
  IF M.p.frames = <<>> THEN visitParseResult(M, res, toks)
  ELSE IF Last(M.p.frames).kind = "class"
    THEN parseClassMemberResult(M, res, toks)
  ELSE parseBlockResult(M, res, toks)

\* a call of a parse function: a construct parsed in one go returns at
\* once, a block, a body or a class body becomes the innermost loop
call(M, parsed, toks) ==
  IF parsed.tag = "done" THEN return(M, parsed.res, toks)
  ELSE [cur |-> parsed.res.cur, diags |-> M.diags \o parsed.res.diags,
        p |-> [M.p EXCEPT
                 !.frames =
                   Append(@, Frame(parsed.tag,
                                   IF parsed.tag \in BraceLeft
                                     THEN parsed.res.cur
                                     ELSE parsed.res.cur - 1,
                                   parsed.around))]]

\* what the caller of parseBlock() makes of the block, or the nullptr, it
\* got: the statement itself, or the declaration around the body
bodyOf(kind, block) ==
  IF block.node = Null \/ kind = "block" THEN block
  ELSE Parsed([kind |-> CASE kind = "function" -> "FunctionDecl"
                          [] kind = "method" -> "MethodDecl"
                          [] kind = "constructor" -> "ConstructorDecl"
                          [] kind \in {"getter", "setter"} -> "PropertyDecl",
               body |-> block.node.statements],
              block.cur, block.diags)

\* parseBlock() behind its loop: the block, or the declaration it is the
\* body of, goes to the callers that wait around it
parseBlockEnd(M, toks) ==
  LET brace == consume(toks, M.cur, "RIGHT_BRACE",
                       "Expected '}' after block")
      res == IF brace.ok
               THEN Parsed([kind |-> "Block",
                            statements |-> Last(M.p.frames).count],
                           brace.cur, <<>>)
               ELSE Failed(brace.cur, brace.diags)
  IN call(pop(M),
          resume(M.p.impl, toks, Done(bodyOf(Last(M.p.frames).kind, res)),
                 Last(M.p.frames).around, 1),
          toks)

\* the body of the member loop of parseClassDecl()
parseClassMember(M, toks) == call(M, parseMemberDecl(toks, M.cur), toks)

\* while (!check(RIGHT_BRACE) && !tokens_.isAtEnd())
inBody(toks, cur) == ~check(toks, cur, "RIGHT_BRACE") /\ ~isAtEnd(toks, cur)

(***************************************************************************)
(* parse_visitor/base_parse_visitor.cpp and its sub-parsers: the           *)
(* BaseParseVisitor that BaseVisitor::parse() runs.  Its expression parser *)
(* (expression_parse_visitor.cpp) prints its errors to stderr and hands    *)
(* nothing to the ErrorReporter; its declaration parser                    *)
(* (declaration_parse_visitor.cpp) reports to the ErrorReporter.           *)
(***************************************************************************)
LegacyBinaryLevels ==
  << {"PIPE_PIPE"}, {"AMPERSAND_AMPERSAND"}, {"PIPE"}, {"CARET"},
     {"AMPERSAND"}, {"EQUALS_EQUALS", "EXCLAIM_EQUALS"},
     {"LESS", "GREATER", "LESS_EQUALS", "GREATER_EQUALS"},
     {"LEFT_SHIFT", "RIGHT_SHIFT"}, {"PLUS", "MINUS"},
     {"STAR", "SLASH", "PERCENT"} >>

LegacyAssignmentOps ==
  {"EQUALS", "PLUS_EQUALS", "MINUS_EQUALS", "STAR_EQUALS", "SLASH_EQUALS",
   "PERCENT_EQUALS", "AMPERSAND_EQUALS", "PIPE_EQUALS", "CARET_EQUALS"}

LegacyPrefixOps ==
  {"PLUS_PLUS", "MINUS_MINUS", "PLUS", "MINUS", "EXCLAIM", "TILDE", "AT"}

LegacyLiteralKinds ==
  {"NUMBER", "STRING_LITERAL", "TRUE", "FALSE", "CHAR_LITERAL",
   "NULL_VALUE", "UNDEFINED"}

LegacyCompileTimeKinds == {"CONST_EXPR", "SIZEOF", "ALIGNOF", "TYPEOF"}

LegacyPrimitiveKinds == {"VOID", "INT", "FLOAT", "BOOLEAN", "STRING"}

Expr(kind) == [kind |-> kind]

RECURSIVE Legacy_parseExpression(_, _)
RECURSIVE Legacy_parseConditionalExpr(_, _)
RECURSIVE Legacy_parseBinaryExpr(_, _, _)
RECURSIVE Legacy_binaryLoop(_, _, _)
RECURSIVE Legacy_parseUnaryExpr(_, _)
RECURSIVE Legacy_postfixLoop(_, _)
RECURSIVE Legacy_parsePrimaryExpr(_, _)
RECURSIVE Legacy_expressionList(_, _)
RECURSIVE Legacy_qualifiers(_, _, _)
RECURSIVE Legacy_parseTypeModifiers(_, _)
RECURSIVE Legacy_parameterLoop(_, _)
RECURSIVE Legacy_parseAttributeList(_, _)

\* ExpressionParserVisitor::error : stderr only, nullptr
Legacy_error(cur) == Failed(cur, <<>>)

\* ExpressionParserVisitor::parseExpression and parseAssignmentExpr
Legacy_parseExpression(toks, cur) ==
  With([expr \in {Legacy_parseConditionalExpr(toks, cur)} |->
    IF expr.node = Null THEN expr
    ELSE IF matchesOneOf(toks, expr.cur, LegacyAssignmentOps)
      THEN With([value \in {Legacy_parseExpression(toks, advance(toks, expr.cur))} |->
        IF value.node = Null THEN value
        ELSE Parsed(Expr("Assignment"), value.cur, <<>>)])
    ELSE expr])

\* ExpressionParserVisitor::parseConditionalExpr
Legacy_parseConditionalExpr(toks, cur) ==
  With([expr \in {Legacy_parseBinaryExpr(1, toks, cur)} |->
    IF expr.node = Null THEN expr
    ELSE IF ~check(toks, expr.cur, "QUESTION") THEN expr
    ELSE With([trueExpr \in {Legacy_parseExpression(toks, advance(toks, expr.cur))} |->
      IF trueExpr.node = Null THEN trueExpr
      ELSE IF ~check(toks, trueExpr.cur, "COLON")
        THEN Legacy_error(trueExpr.cur)
      ELSE With([falseExpr \in {Legacy_parseConditionalExpr(toks,
                                            advance(toks, trueExpr.cur))} |->
        IF falseExpr.node = Null THEN falseExpr
        ELSE Parsed(Expr("Conditional"), falseExpr.cur, <<>>)])])])

\* parseLogicalOrExpr ... parseMultiplicativeExpr: level is the index of
\* the function in LegacyBinaryLevels
Legacy_parseBinaryExpr(level, toks, cur) ==
  IF level > Len(LegacyBinaryLevels) THEN Legacy_parseUnaryExpr(toks, cur)
  ELSE With([expr \in {Legacy_parseBinaryExpr(level + 1, toks, cur)} |->
         IF expr.node = Null THEN expr
         ELSE Legacy_binaryLoop(level, toks, expr)])

\* while (match(<an operator of the level>))
Legacy_binaryLoop(level, toks, expr) ==
  IF matchesOneOf(toks, expr.cur, LegacyBinaryLevels[level])
    THEN With([right \in {Legacy_parseBinaryExpr(level + 1, toks,
                                     advance(toks, expr.cur))} |->
           IF right.node = Null THEN right
           ELSE Legacy_binaryLoop(level, toks,
                                  Parsed(Expr("Binary"), right.cur, <<>>))])
    ELSE expr

\* do { parseExpression(); } while (match(COMMA)); : the cursor behind the
\* last expression, or the nullptr of the expression that failed
Legacy_expressionList(toks, cur) ==
  With([element \in {Legacy_parseExpression(toks, cur)} |->
    IF element.node = Null THEN element
    ELSE IF check(toks, element.cur, "COMMA")
      THEN Legacy_expressionList(toks, advance(toks, element.cur))
    ELSE element])

\* the expressions between an opening token, which is consumed, and its
\* closing token: the elements of an array literal, the arguments of a call
\* and of a constructor
Legacy_closedList(toks, cur, closer, node) ==
  IF check(toks, cur, closer) THEN Parsed(node, advance(toks, cur), <<>>)
  ELSE With([list \in {Legacy_expressionList(toks, cur)} |->
         IF list.node = Null THEN list
         ELSE IF ~check(toks, list.cur, closer) THEN Legacy_error(list.cur)
         ELSE Parsed(node, advance(toks, list.cur), <<>>)])

\* ExpressionParserVisitor::parseUnaryExpr and the head of parsePostfixExpr
Legacy_parseUnaryExpr(toks, cur) ==
  IF matchesOneOf(toks, cur, LegacyPrefixOps)
    THEN With([right \in {Legacy_parseUnaryExpr(toks, advance(toks, cur))} |->
           IF right.node = Null THEN right
           ELSE Parsed(Expr("Unary"), right.cur, <<>>)])
    ELSE With([expr \in {Legacy_parsePrimaryExpr(toks, cur)} |->
           IF expr.node = Null THEN expr
           ELSE Legacy_postfixLoop(toks, expr)])

\* the while (true) of ExpressionParserVisitor::parsePostfixExpr
Legacy_postfixLoop(toks, expr) ==
  IF matchesOneOf(toks, expr.cur, {"PLUS_PLUS", "MINUS_MINUS"})
    THEN Legacy_postfixLoop(toks, Parsed(Expr("Unary"),
                                         advance(toks, expr.cur), <<>>))
  ELSE IF check(toks, expr.cur, "LEFT_BRACKET")
    THEN With([index \in {Legacy_parseExpression(toks,
                                     advance(toks, expr.cur))} |->
           IF index.node = Null THEN index
           ELSE IF ~check(toks, index.cur, "RIGHT_BRACKET")
             THEN Legacy_error(index.cur)
           ELSE Legacy_postfixLoop(toks, Parsed(Expr("Index"),
                                     advance(toks, index.cur), <<>>))])
  ELSE IF check(toks, expr.cur, "LEFT_PAREN")
    THEN With([called \in {Legacy_closedList(toks, advance(toks, expr.cur),
                                     "RIGHT_PAREN", Expr("Call"))} |->
           IF called.node = Null THEN called
           ELSE Legacy_postfixLoop(toks, called)])
  ELSE IF matchesOneOf(toks, expr.cur, {"DOT", "AT"})
    THEN IF ~check(toks, advance(toks, expr.cur), "IDENTIFIER")
           THEN Legacy_error(advance(toks, expr.cur))
           ELSE Legacy_postfixLoop(toks, Parsed(Expr("Member"),
                  advance(toks, advance(toks, expr.cur)), <<>>))
  ELSE expr

\* while (match(DOT)) { match(IDENTIFIER) ... } behind the n-th identifier
\* of a qualified name
Legacy_qualifiers(toks, cur, n) ==
  IF ~check(toks, cur, "DOT")
    THEN [ok |-> TRUE, cur |-> cur, size |-> n]
  ELSE IF ~check(toks, advance(toks, cur), "IDENTIFIER")
    THEN [ok |-> FALSE, cur |-> advance(toks, cur), size |-> n]
  ELSE Legacy_qualifiers(toks, advance(toks, advance(toks, cur)), n + 1)

\* ExpressionParserVisitor::parseNewExpression, called behind 'new'
Legacy_parseNewExpression(toks, cur) ==
  IF ~check(toks, cur, "IDENTIFIER") THEN Legacy_error(cur)
  ELSE With([typeName \in {Legacy_qualifiers(toks, advance(toks, cur), 1)} |->
         IF ~typeName.ok THEN Legacy_error(typeName.cur)
         ELSE IF check(toks, typeName.cur, "LEFT_PAREN")
           THEN Legacy_closedList(toks, advance(toks, typeName.cur),
                                  "RIGHT_PAREN", Expr("New"))
         ELSE Parsed(Expr("New"), typeName.cur, <<>>)])

\* ExpressionParserVisitor::parseCompileTimeExpr, called behind its operator
Legacy_parseCompileTimeExpr(toks, cur) ==
  IF ~check(toks, cur, "LEFT_PAREN") THEN Legacy_error(cur)
  ELSE With([operand \in {Legacy_parseExpression(toks, advance(toks, cur))} |->
         IF operand.node = Null THEN operand
         ELSE IF ~check(toks, operand.cur, "RIGHT_PAREN")
           THEN Legacy_error(operand.cur)
         ELSE Parsed(Expr("CompileTime"), advance(toks, operand.cur), <<>>)])

\* ExpressionParserVisitor::parseArrayLiteral, called behind '['
Legacy_parseArrayLiteral(toks, cur) ==
  Legacy_closedList(toks, cur, "RIGHT_BRACKET", Expr("ArrayLiteral"))

\* ExpressionParserVisitor::parsePrimaryExpr
Legacy_parsePrimaryExpr(toks, cur) ==
  IF check(toks, cur, "IDENTIFIER")
    THEN Parsed(Expr("Identifier"), advance(toks, cur), <<>>)
  ELSE IF matchesOneOf(toks, cur, LegacyLiteralKinds)
    THEN Parsed(Expr("Literal"), advance(toks, cur), <<>>)
  ELSE IF check(toks, cur, "THIS")
    THEN Parsed(Expr("This"), advance(toks, cur), <<>>)
  ELSE IF check(toks, cur, "LEFT_PAREN")
    THEN With([expr \in {Legacy_parseExpression(toks, advance(toks, cur))} |->
           IF expr.node = Null THEN expr
           ELSE IF ~check(toks, expr.cur, "RIGHT_PAREN")
             THEN Legacy_error(expr.cur)
           ELSE Parsed(expr.node, advance(toks, expr.cur), <<>>)])
  ELSE IF check(toks, cur, "LEFT_BRACKET")
    THEN Legacy_parseArrayLiteral(toks, advance(toks, cur))
  ELSE IF check(toks, cur, "NEW")
    THEN Legacy_parseNewExpression(toks, advance(toks, cur))
  ELSE IF matchesOneOf(toks, cur, LegacyCompileTimeKinds)
    THEN Legacy_parseCompileTimeExpr(toks, advance(toks, cur))
  ELSE Legacy_error(cur)

\* DeclarationParseVisitor::synchronize (declaration_parse_visitor.cpp)
Legacy_synchronize(toks, cur) == syncLoop(toks, cur, SyncKinds)

\* the messages reported before a construct, in front of its own
Legacy_after(diags, res) == [res EXCEPT !.diags = diags \o @]

\* DeclarationParseVisitor::parsePrimaryType
Legacy_parsePrimaryType(toks, cur) ==
  IF matchesOneOf(toks, cur, LegacyPrimitiveKinds)
    THEN Parsed([kind |-> "PrimitiveType"], advance(toks, cur), <<>>)
  ELSE IF check(toks, cur, "IDENTIFIER")
    THEN With([name \in {Legacy_qualifiers(toks, advance(toks, cur), 1)} |->
           IF ~name.ok
             THEN Failed(name.cur, <<"Expected identifier after '.'">>)
           ELSE IF name.size > 1
             THEN Parsed([kind |-> "QualifiedType"], name.cur, <<>>)
           ELSE Parsed([kind |-> "NamedType"], name.cur, <<>>)])
  ELSE Failed(cur, <<"Expected type">>)

\* the pointer modifier of parseTypeModifiers, behind '@' and an identifier
\* whose lexeme is modifier: the cursor behind the modifier, or the nullptr
Legacy_pointerModifier(toks, cur, modifier) ==
  IF modifier \in {"unsafe", "safe"}
    THEN Parsed([kind |-> "PointerType"], cur, <<>>)
  ELSE IF modifier = "aligned"
    THEN IF ~check(toks, cur, "LEFT_PAREN")
           THEN Failed(cur, <<"Expected '(' after 'aligned'">>)
           ELSE With([alignment \in {Legacy_parseExpression(toks,
                                           advance(toks, cur))} |->
                  IF alignment.node = Null THEN alignment
                  ELSE IF ~check(toks, alignment.cur, "RIGHT_PAREN")
                    THEN Failed(alignment.cur,
                                <<"Expected ')' after alignment value">>)
                  ELSE Parsed([kind |-> "PointerType"],
                              advance(toks, alignment.cur), <<>>)])
  ELSE Failed(cur, <<"Invalid pointer modifier: " \o modifier>>)

\* DeclarationParseVisitor::parseTypeModifiers
Legacy_parseTypeModifiers(toks, baseType) ==
  IF check(toks, baseType.cur, "LEFT_BRACKET")
    THEN IF check(toks, advance(toks, baseType.cur), "RIGHT_BRACKET")
           THEN Legacy_parseTypeModifiers(toks,
                  Parsed([kind |-> "ArrayType"],
                         advance(toks, advance(toks, baseType.cur)), <<>>))
           ELSE With([size \in {Legacy_parseExpression(toks,
                                      advance(toks, baseType.cur))} |->
                  IF size.node = Null THEN size
                  ELSE IF ~check(toks, size.cur, "RIGHT_BRACKET")
                    THEN Failed(size.cur, <<"Expected ']' after array size">>)
                  ELSE Legacy_parseTypeModifiers(toks,
                         Parsed([kind |-> "ArrayType"],
                                advance(toks, size.cur), <<>>))])
  ELSE IF check(toks, baseType.cur, "AT")
    THEN IF ~check(toks, advance(toks, baseType.cur), "IDENTIFIER")
           THEN Legacy_parseTypeModifiers(toks,
                  Parsed([kind |-> "PointerType"],
                         advance(toks, baseType.cur), <<>>))
           ELSE With([pointer \in {Legacy_pointerModifier(toks,
                         advance(toks, advance(toks, baseType.cur)),
                         getLexeme(peek(toks, advance(toks, baseType.cur))))} |->
                  IF pointer.node = Null THEN pointer
                  ELSE Legacy_parseTypeModifiers(toks, pointer)])
  ELSE baseType

\* DeclarationParseVisitor::parseType
Legacy_parseType(toks, cur) ==
  With([baseType \in {Legacy_parsePrimaryType(toks, cur)} |->
    IF baseType.node = Null THEN baseType
    ELSE Legacy_parseTypeModifiers(toks, baseType)])

\* DeclarationParseVisitor::parseStorageClass : the cursor behind the
\* storage class and the messages reported (the class itself is a field of
\* the node)
Legacy_parseStorageClass(toks, cur) ==
  IF ~check(toks, cur, "ATTRIBUTE") THEN [cur |-> cur, diags |-> <<>>]
  ELSE IF ~check(toks, advance(toks, cur), "IDENTIFIER")
    THEN [cur |-> advance(toks, cur),
          diags |-> <<"Expected storage class identifier">>]
  ELSE IF getLexeme(peek(toks, advance(toks, cur)))
            \in {"stack", "heap", "static"}
    THEN [cur |-> advance(toks, advance(toks, cur)), diags |-> <<>>]
  ELSE [cur |-> advance(toks, advance(toks, cur)),
        diags |-> <<"Invalid storage class: "
                      \o getLexeme(peek(toks, advance(toks, cur)))>>]

\* the type annotation of parseVarDecl, behind the name: the cursor behind
\* it, or the nullptr of the type after synchronize()
Legacy_typeAnnotation(toks, cur) ==
  IF ~check(toks, cur, "COLON") THEN Parsed(Expr("none"), cur, <<>>)
  ELSE With([type \in {Legacy_parseType(toks, advance(toks, cur))} |->
         IF type.node = Null
           THEN Failed(Legacy_synchronize(toks, type.cur), type.diags)
           ELSE type])

\* the initializer of parseVarDecl and the semicolon behind it
Legacy_initializer(toks, cur, isConst) ==
  With([init \in {IF check(toks, cur, "EQUALS")
                    THEN Legacy_parseExpression(toks, advance(toks, cur))
                    ELSE Parsed(Expr("none"), cur, <<>>)} |->
    IF init.node = Null
      THEN Failed(Legacy_synchronize(toks, init.cur), <<>>)
    ELSE IF init.node = Expr("none") /\ isConst
      THEN Failed(init.cur, <<"Const declarations require initialization">>)
    ELSE IF ~check(toks, init.cur, "SEMICOLON")
      THEN Failed(Legacy_synchronize(toks, init.cur),
                  <<"Expected ';' after variable declaration">>)
    ELSE Parsed([kind |-> "VarDecl"], advance(toks, init.cur), <<>>)])

\* DeclarationParseVisitor::parseVarDecl, called behind 'let' or 'const'
Legacy_parseVarDecl(toks, cur, isConst) ==
  With([storageClass \in {Legacy_parseStorageClass(toks, cur)} |->
    IF ~check(toks, storageClass.cur, "IDENTIFIER")
      THEN Failed(storageClass.cur,
                  storageClass.diags \o <<"Expected variable name">>)
    ELSE With([type \in {Legacy_typeAnnotation(toks,
                           advance(toks, storageClass.cur))} |->
      IF type.node = Null THEN Legacy_after(storageClass.diags, type)
      ELSE Legacy_after(storageClass.diags,
                        Legacy_initializer(toks, type.cur, isConst))])])

\* DeclarationParseVisitor::parseParameter
Legacy_parseParameter(toks, cur) ==
  With([name \in {IF check(toks, cur, "REF") THEN advance(toks, cur)
                  ELSE cur} |->
  With([at \in {IF check(toks, name, "CONST") THEN advance(toks, name)
                ELSE name} |->
    IF ~check(toks, at, "IDENTIFIER")
      THEN Failed(at, <<"Expected parameter name">>)
    ELSE IF ~check(toks, advance(toks, at), "COLON")
      THEN Failed(advance(toks, at), <<"Expected ':' after parameter name">>)
    ELSE With([type \in {Legacy_parseType(toks,
                           advance(toks, advance(toks, at)))} |->
      IF type.node = Null THEN type
      ELSE IF ~check(toks, type.cur, "EQUALS")
        THEN Parsed([kind |-> "Parameter"], type.cur, <<>>)
      ELSE With([defaultValue \in {Legacy_parseExpression(toks,
                                     advance(toks, type.cur))} |->
        IF defaultValue.node = Null THEN defaultValue
        ELSE Parsed([kind |-> "Parameter"], defaultValue.cur, <<>>)])])])])

\* parseParameter() and while (match(COMMA)) of parseParameterList: the
\* list ends at the parameter that fails, where that parameter stopped
Legacy_parameterLoop(toks, cur) ==
  With([param \in {Legacy_parseParameter(toks, cur)} |->
    IF param.node = Null THEN [cur |-> param.cur, diags |-> param.diags]
    ELSE IF check(toks, param.cur, "COMMA")
      THEN Legacy_parameterLoop(toks, advance(toks, param.cur))
    ELSE [cur |-> param.cur, diags |-> <<>>]])

\* DeclarationParseVisitor::parseParameterList
Legacy_parseParameterList(toks, cur) ==
  IF check(toks, cur, "RIGHT_PAREN") THEN [cur |-> cur, diags |-> <<>>]
  ELSE Legacy_parameterLoop(toks, cur)

\* the return type and the async of parseFuncDecl, behind ')'
Legacy_returnType(toks, cur) ==
  With([returnType \in {IF check(toks, cur, "COLON")
                          THEN Legacy_parseType(toks, advance(toks, cur))
                          ELSE Parsed(Expr("none"), cur, <<>>)} |->
    IF returnType.node = Null THEN returnType
    ELSE Parsed([kind |-> "FunctionDecl"],
                IF check(toks, returnType.cur, "ASYNC")
                  THEN advance(toks, returnType.cur) ELSE returnType.cur,
                <<>>)])

\* DeclarationParseVisitor::parseFuncDecl, called behind 'function': the
\* body is not parsed
Legacy_parseFuncDecl(toks, cur) ==
  IF ~check(toks, cur, "IDENTIFIER")
    THEN Failed(cur, <<"Expected function name">>)
  ELSE IF ~check(toks, advance(toks, cur), "LEFT_PAREN")
    THEN Failed(advance(toks, cur), <<"Expected '(' after function name">>)
  ELSE With([params \in {Legacy_parseParameterList(toks,
                           advance(toks, advance(toks, cur)))} |->
         IF ~check(toks, params.cur, "RIGHT_PAREN")
           THEN Failed(params.cur,
                       params.diags \o <<"Expected ')' after parameters">>)
           ELSE Legacy_after(params.diags,
                  Legacy_returnType(toks, advance(toks, params.cur)))])

\* DeclarationParseVisitor::parseAttribute, called behind the ATTRIBUTE
\* token: the cursor behind the attribute and the messages reported
Legacy_parseAttribute(toks, cur) ==
  IF ~check(toks, cur, "IDENTIFIER")
    THEN [cur |-> cur, diags |-> <<"Expected attribute name">>]
  ELSE IF ~check(toks, advance(toks, cur), "LEFT_PAREN")
    THEN [cur |-> advance(toks, cur), diags |-> <<>>]
  ELSE With([argument \in {Legacy_parseExpression(toks,
                             advance(toks, advance(toks, cur)))} |->
         IF argument.node = Null
           THEN [cur |-> argument.cur, diags |-> <<>>]
         ELSE IF ~check(toks, argument.cur, "RIGHT_PAREN")
           THEN [cur |-> argument.cur,
                 diags |-> <<"Expected ')' after attribute argument">>]
         ELSE [cur |-> advance(toks, argument.cur), diags |-> <<>>]])

\* DeclarationParseVisitor::parseAttributeList
Legacy_parseAttributeList(toks, cur) ==
  IF ~check(toks, cur, "ATTRIBUTE") THEN [cur |-> cur, diags |-> <<>>]
  ELSE With([attr \in {Legacy_parseAttribute(toks, advance(toks, cur))} |->
         With([rest \in {Legacy_parseAttributeList(toks, attr.cur)} |->
           [cur |-> rest.cur, diags |-> attr.diags \o rest.diags]])])

\* DeclarationParseVisitor::parseDeclaration (declaration_parse_visitor.cpp)
Legacy_parseDeclaration(toks, cur) ==
  With([attributes \in {Legacy_parseAttributeList(toks, cur)} |->
    IF matchesOneOf(toks, attributes.cur, {"LET", "CONST"})
      THEN Legacy_after(attributes.diags,
             Legacy_parseVarDecl(toks, advance(toks, attributes.cur),
                                 check(toks, attributes.cur, "CONST")))
    ELSE IF check(toks, attributes.cur, "FUNCTION")
      THEN Legacy_after(attributes.diags,
             Legacy_parseFuncDecl(toks, advance(toks, attributes.cur)))
    ELSE Failed(attributes.cur,
                attributes.diags \o <<"Expected declaration">>)])

\* BaseParseVisitor::parseStatement (base_parse_visitor.cpp)
Legacy_parseStatement(toks, cur) ==
  With([expr \in {Legacy_parseExpression(toks, cur)} |->
    IF expr.node = Null THEN expr
    ELSE IF ~check(toks, expr.cur, "SEMICOLON")
      THEN Failed(expr.cur, <<"Expected ';' after expression">>)
    ELSE Parsed(expr.node, advance(toks, expr.cur), <<>>)])

\* the loop body of BaseParseVisitor::visitParse (base_parse_visitor.cpp):
\* the first construct that fails ends the parse
Legacy_visitParseBody(M, toks) ==
  With([res \in {IF \E k \in {"LET", "CONST", "FUNCTION", "CLASS"} :
            check(toks, M.cur, k)
         THEN Legacy_parseDeclaration(toks, M.cur)
         ELSE Legacy_parseStatement(toks, M.cur)} |->
    IF res.node = Null
      THEN [cur |-> res.cur, diags |-> M.diags \o res.diags,
            p |-> [M.p EXCEPT !.done = TRUE, !.result = FALSE,
                              !.hadError = TRUE]]
      ELSE [cur |-> res.cur, diags |-> M.diags \o res.diags,
            p |-> [M.p EXCEPT !.nodes_ = Append(@, res.node.kind)]]])

(***************************************************************************)
(* ResolvedType (resolved_type.h is not among the sources; the kinds, the  *)
(* accessors and the relations follow sections 3.4 and 4.10 of the         *)
(* specification).  A type is a record with its kind; a function type      *)
(* holds its return type and its parameter types, a named type its name,   *)
(* a reference type the type referred to.  Null is the null pointer.       *)
(***************************************************************************)
voidType_ == [kind |-> "Void"]

intType_ == [kind |-> "Int"]

floatType_ == [kind |-> "Float"]

boolType_ == [kind |-> "Bool"]

stringType_ == [kind |-> "String"]

errorType_ == [kind |-> "Error"]

\* ResolvedType::Function
Function(returnType, paramTypes) ==
  [kind |-> "Function", returnType |-> returnType,
   parameterTypes |-> paramTypes]

\* ResolvedType::Named
Named(name) == [kind |-> "Named", name |-> name]

\* ResolvedType::Reference
Reference(type) == [kind |-> "Reference", referenced |-> type]

\* ResolvedType::Array
Array(elementType) == [kind |-> "Array", elementType |-> elementType]

\* ResolvedType::Pointer
Pointer(pointeeType, isUnsafe) ==
  [kind |-> "Pointer", pointeeType |-> pointeeType, isUnsafe |-> isUnsafe]

\* ResolvedType::Union
Union(left, right) == [kind |-> "Union", left |-> left, right |-> right]

\* ResolvedType::Smart
Smart(pointeeType, smartKind) ==
  [kind |-> "Smart", pointeeType |-> pointeeType, smartKind |-> smartKind]

\* ResolvedType::Template
Template(name, arguments) ==
  [kind |-> "Template", name |-> name, arguments |-> arguments]

\* equality of resolved types: structural and kind-sensitive, a union
\* equals the union of the same two types in either order
RECURSIVE equals(_, _)
equals(x, y) ==
  IF x.kind # y.kind THEN FALSE
  ELSE IF x.kind = "Union"
    THEN \/ equals(x.left, y.left) /\ equals(x.right, y.right)
         \/ equals(x.left, y.right) /\ equals(x.right, y.left)
  ELSE IF x.kind = "Array" THEN equals(x.elementType, y.elementType)
  ELSE IF x.kind = "Pointer"
    THEN x.isUnsafe = y.isUnsafe /\ equals(x.pointeeType, y.pointeeType)
  ELSE IF x.kind = "Smart"
    THEN x.smartKind = y.smartKind /\ equals(x.pointeeType, y.pointeeType)
  ELSE IF x.kind = "Reference" THEN equals(x.referenced, y.referenced)
  ELSE IF x.kind = "Function"
    THEN /\ Len(x.parameterTypes) = Len(y.parameterTypes)
         /\ \A i \in DOMAIN x.parameterTypes :
              equals(x.parameterTypes[i], y.parameterTypes[i])
         /\ equals(x.returnType, y.returnType)
  ELSE IF x.kind = "Template"
    THEN /\ x.name = y.name
         /\ Len(x.arguments) = Len(y.arguments)
         /\ \A i \in DOMAIN x.arguments :
              equals(x.arguments[i], y.arguments[i])
  ELSE x = y

\* ResolvedType::isAssignableTo: structural, Error is assignable to and
\* from everything, function types are covariant in the return type and
\* invariant in the parameter types
RECURSIVE isAssignableTo(_, _)
isAssignableTo(x, y) ==
  \/ x.kind = "Error"
  \/ y.kind = "Error"
  \/ IF x.kind = "Function" /\ y.kind = "Function"
       THEN /\ Len(x.parameterTypes) = Len(y.parameterTypes)
            /\ \A i \in DOMAIN x.parameterTypes :
                 equals(x.parameterTypes[i], y.parameterTypes[i])
            /\ isAssignableTo(x.returnType, y.returnType)
       ELSE equals(x, y)

\* ResolvedType::isImplicitlyConvertibleTo: a type to itself, Int to Float,
\* a reference to the type it refers to, Error to and from everything
isImplicitlyConvertibleTo(x, y) ==
  \/ x.kind = "Error"
  \/ y.kind = "Error"
  \/ equals(x, y)
  \/ x.kind = "Int" /\ y.kind = "Float"
  \/ x.kind = "Reference" /\ equals(x.referenced, y)

\* ResolvedType::isExplicitlyConvertibleTo: a type to itself, between Int
\* and Float in both directions, between the numeric types and Bool, a
\* pointer to a pointer with the same kind of pointee, Error to and from
\* everything
isExplicitlyConvertibleTo(x, y) ==
  \/ x.kind = "Error"
  \/ y.kind = "Error"
  \/ equals(x, y)
  \/ x.kind \in {"Int", "Float"} /\ y.kind \in {"Int", "Float", "Bool"}
  \/ x.kind = "Bool" /\ y.kind \in {"Int", "Float"}
  \/ /\ x.kind = "Pointer"
     /\ y.kind = "Pointer"
     /\ x.pointeeType.kind = y.pointeeType.kind

(***************************************************************************)
(* type_check_visitor.cpp : TypeCheckVisitor.  A visit function returns    *)
(* the ResolvedType it yields and the messages it handed to error().       *)
(***************************************************************************)
Typed(type, diags) == [type |-> type, diags |-> diags]

\* node->getValue().find('.') != std::string::npos
hasDecimalPoint(value) == \E i \in DOMAIN value : value[i] = "."

\* TypeCheckVisitor::visitLiteralExpr
visitLiteralExpr(node) ==
  IF node.type = "NUMBER"
    THEN IF hasDecimalPoint(node.value) THEN Typed(floatType_, <<>>)
         ELSE Typed(intType_, <<>>)
  ELSE IF node.type = "STRING_LITERAL" THEN Typed(stringType_, <<>>)
  ELSE IF node.type \in {"TRUE", "FALSE"} THEN Typed(boolType_, <<>>)
  ELSE Typed(errorType_, <<"Unknown literal type">>)

\* the classes derived from nodes::StatementNode
StatementKinds ==
  {"ExpressionStmt", "Block", "IfStmt", "WhileStmt", "DoWhileStmt", "ForStmt",
   "ForOfStmt", "ReturnStmt", "BreakStmt", "ContinueStmt", "SwitchStmt",
   "TryStmt", "ThrowStmt", "AssemblyStmt", "LabeledStmt", "DeclarationStmt"}

(***************************************************************************)
(* TypeScope (type_scope.h; the header is not among the sources, the       *)
(* operations follow sections 3.5 and 4.10 of the specification): a scope  *)
(* is a record (types, variables, functions, parent), lookup walks the     *)
(* parents, a declaration shadows the enclosing bindings.  scopes is the   *)
(* sequence of all scopes created so far, a scope is named by its index,   *)
(* and 0 is no scope.                                                      *)
(***************************************************************************)
NoBindings == [n \in {} |-> Null]

TypeScopeCtor(parent) ==
  [parent |-> parent, types |-> NoBindings, variables |-> NoBindings,
   functions |-> NoBindings]

\* a binding added to a namespace; redeclaring a name of the same scope is
\* an error and leaves the binding as it is
bind(bindings, name, type) ==
  IF name \in DOMAIN bindings THEN bindings
  ELSE [n \in DOMAIN bindings \cup {name} |->
          IF n = name THEN type ELSE bindings[n]]

\* TypeScope::createChildScope, called on the scope s
createChildScope(scopes, s) == Append(scopes, TypeScopeCtor(s))

\* TypeScope::declareType, called on the scope s
declareType(scopes, s, name, type) ==
  [scopes EXCEPT ![s].types = bind(@, name, type)]

\* TypeScope::declareVariable, called on the scope s
declareVariable(scopes, s, name, type) ==
  [scopes EXCEPT ![s].variables = bind(@, name, type)]

\* TypeScope::declareFunction, called on the scope s
declareFunction(scopes, s, name, type) ==
  [scopes EXCEPT ![s].functions = bind(@, name, type)]

\* TypeScope::lookupType, called on the scope s: Null is nullptr
RECURSIVE lookupType(_, _, _)
lookupType(scopes, s, name) ==
  IF s = 0 THEN Null
  ELSE IF name \in DOMAIN scopes[s].types
    THEN scopes[s].types[name]
  ELSE lookupType(scopes, scopes[s].parent, name)

\* TypeScope::lookupVariable, called on the scope s
RECURSIVE lookupVariable(_, _, _)
lookupVariable(scopes, s, name) ==
  IF s = 0 THEN Null
  ELSE IF name \in DOMAIN scopes[s].variables
    THEN scopes[s].variables[name]
  ELSE lookupVariable(scopes, scopes[s].parent, name)

\* TypeScope::lookupFunction, called on the scope s
RECURSIVE lookupFunction(_, _, _)
lookupFunction(scopes, s, name) ==
  IF s = 0 THEN Null
  ELSE IF name \in DOMAIN scopes[s].functions
    THEN scopes[s].functions[name]
  ELSE lookupFunction(scopes, scopes[s].parent, name)

(***************************************************************************)
(* The visit functions with their effect on currentScope_.  C is the       *)
(* checker: scopes, currentScope_, the messages handed to error(), the     *)
(* type the last visit returned, and lookups, the log of the identifiers   *)
(* visitIdentifierExpr looked up with the type each of them got.           *)
(* currentFunctionReturnType_ is the member of that name, Null while it    *)
(* is the null pointer its default construction leaves; returnChecks logs  *)
(* for each return statement the type returned, the type it was compared   *)
(* with and whether error() was called.  Reading through the null pointer  *)
(* is undefined: onNull holds, for the reads still to come in this pass,   *)
(* what each of them does; derefNull records that a read happened and      *)
(* crashed that the process ended there.                                   *)
(***************************************************************************)
returns(C, type) == [C EXCEPT !.type = type]

\* TypeCheckVisitor::error; nothing is reported once the process has ended
error(C, message) ==
  IF C.crashed THEN C ELSE [C EXCEPT !.diags = Append(@, message)]

\* error(..); return errorType_;
errorIn(C, message) == returns(error(C, message), errorType_)

\* std::swap(currentScope_, childScope) behind createChildScope()
enterChildScope(C) ==
  [C EXCEPT !.scopes = createChildScope(@, C.currentScope_),
            !.currentScope_ = Len(C.scopes) + 1]

\* the second std::swap(currentScope_, childScope), where saved is the
\* scope the first swap left in childScope
restoreScope(C, saved) == [C EXCEPT !.currentScope_ = saved]

\* "Undefined identifier: " + node->getName(), for the names of the ASTs
UndefinedIdentifier(name) ==
  CASE name = "x" -> "Undefined identifier: x"
    [] name = "f" -> "Undefined identifier: f"

\* "Undefined type: " + node->getName(), for the names of the ASTs
UndefinedType(name) ==
  CASE name = "A" -> "Undefined type: A"
    [] name = "B" -> "Undefined type: B"

\* "Undefined class: " + node->getClassName(), for the names of the ASTs
UndefinedClass(name) ==
  CASE name = "A" -> "Undefined class: A"
    [] name = "B" -> "Undefined class: B"

\* TypeCheckVisitor::visitIdentifierExpr
visitIdentifierExpr(C, node) ==
  With([varType \in {With([varType \in {lookupVariable(C.scopes, C.currentScope_, node.name)} |->
              IF varType = Null
                THEN lookupFunction(C.scopes, C.currentScope_, node.name)
                ELSE varType])} |->
    IF varType = Null
      THEN [errorIn(C, UndefinedIdentifier(node.name))
              EXCEPT !.lookups = Append(@, [name |-> node.name,
                                            type |-> errorType_])]
      ELSE [returns(C, varType)
              EXCEPT !.lookups = Append(@, [name |-> node.name,
                                            type |-> varType])]])

\* the classification of the binary operators in namespace tokens
isArithmeticOperator(op) == op \in {"PLUS", "MINUS", "STAR", "SLASH", "PERCENT"}

isComparisonOperator(op) ==
  op \in {"LESS", "GREATER", "LESS_EQUALS", "GREATER_EQUALS", "EQUALS_EQUALS",
          "EXCLAIM_EQUALS"}

isLogicalOperator(op) == op \in {"AMPERSAND_AMPERSAND", "PIPE_PIPE"}

isBitwiseOperator(op) ==
  op \in {"AMPERSAND", "PIPE", "CARET", "LEFT_SHIFT", "RIGHT_SHIFT"}

\* TypeCheckVisitor::checkBinaryOp
checkBinaryOp(C, op, leftType, rightType) ==
  IF isArithmeticOperator(op)
    THEN IF leftType.kind \in {"Int", "Float"}
              /\ rightType.kind \in {"Int", "Float"}
           THEN returns(C, IF "Float" \in {leftType.kind, rightType.kind}
                             THEN floatType_ ELSE intType_)
         ELSE IF op = "PLUS" /\ "String" \in {leftType.kind, rightType.kind}
           THEN returns(C, stringType_)
         ELSE errorIn(C, "Invalid operands for arithmetic operator")
  ELSE IF isComparisonOperator(op)
    THEN IF isAssignableTo(leftType, rightType)
              \/ isAssignableTo(rightType, leftType)
           THEN returns(C, boolType_)
           ELSE errorIn(C, "Cannot compare incompatible types")
  ELSE IF isLogicalOperator(op)
    THEN IF isImplicitlyConvertibleTo(leftType, boolType_)
              /\ isImplicitlyConvertibleTo(rightType, boolType_)
           THEN returns(C, boolType_)
           ELSE errorIn(C, "Logical operators require boolean operands")
  ELSE IF isBitwiseOperator(op)
    THEN IF leftType.kind = "Int" /\ rightType.kind = "Int"
           THEN returns(C, intType_)
         ELSE errorIn(C, "Bitwise operators require integer operands")
  ELSE errorIn(C, "Unhandled binary operator in type checking")

\* TypeCheckVisitor::checkUnaryOp
checkUnaryOp(C, op, operandType) ==
  IF op \in {"PLUS", "MINUS"}
    THEN IF operandType.kind \in {"Int", "Float"}
           THEN returns(C, operandType)
         ELSE errorIn(C, "Unary +/- requires numeric operand")
  ELSE IF op = "EXCLAIM"
    THEN IF isImplicitlyConvertibleTo(operandType, boolType_)
           THEN returns(C, boolType_)
           ELSE errorIn(C, "Logical NOT requires boolean operand")
  ELSE IF op = "TILDE"
    THEN IF operandType.kind = "Int" THEN returns(C, intType_)
         ELSE errorIn(C, "Bitwise NOT requires integer operand")
  ELSE IF op \in {"PLUS_PLUS", "MINUS_MINUS"}
    THEN IF operandType.kind \in {"Int", "Float"}
           THEN returns(C, operandType)
         ELSE errorIn(C, "Increment/decrement requires numeric operand")
  ELSE errorIn(C, "Unhandled unary operator in type checking")

RECURSIVE visitExpr(_, _)

\* TypeCheckVisitor::visitBinaryExpr
visitBinaryExpr(C, node) ==
  With([left \in {visitExpr(C, node.left)} |->
    With([right \in {visitExpr(left, node.right)} |->
      checkBinaryOp(right, node.op, left.type, right.type)])])

\* TypeCheckVisitor::visitUnaryExpr
visitUnaryExpr(C, node) ==
  With([operand \in {visitExpr(C, node.operand)} |->
    checkUnaryOp(operand, node.op, operand.type)])

\* for (size_t i = 0; i < args.size(); i++): the arguments from the i-th
\* on are visited and compared with the parameter types; a mismatch is
\* reported and the loop goes on
RECURSIVE checkArguments(_, _, _, _)
checkArguments(C, args, paramTypes, i) ==
  IF i > Len(args) THEN C
  ELSE With([argType \in {visitExpr(C, args[i])} |->
         checkArguments(IF ~isAssignableTo(argType.type, paramTypes[i])
                          THEN error(argType, "Argument type mismatch")
                          ELSE argType,
                        args, paramTypes, i + 1)])

\* TypeCheckVisitor::visitCallExpr
visitCallExpr(C, node) ==
  With([calleeType \in {visitExpr(C, node.callee)} |->
    IF calleeType.type.kind # "Function"
      THEN errorIn(calleeType, "Cannot call non-function type")
    ELSE IF Len(calleeType.type.parameterTypes) # Len(node.arguments)
      THEN errorIn(calleeType, "Wrong number of arguments")
    ELSE returns(checkArguments(calleeType, node.arguments,
                                calleeType.type.parameterTypes, 1),
                 calleeType.type.returnType)])

\* TypeCheckVisitor::checkAssignmentCompatibility: the checker behind the
\* call, and in type whether the call returned true; the message is
\* "Cannot assign " + valueType->toString() + " to " +
\* targetType->toString(), written here without the two type names
checkAssignmentCompatibility(C, targetType, valueType) ==
  IF isAssignableTo(valueType, targetType) THEN [ok |-> TRUE, checker |-> C]
  ELSE [ok |-> FALSE, checker |-> error(C, "Cannot assign ... to ...")]

\* the binary operator a compound assignment operator stands for
compoundOperators ==
  [op \in {"PLUS_EQUALS", "MINUS_EQUALS", "STAR_EQUALS", "SLASH_EQUALS",
           "PERCENT_EQUALS"} |->
     CASE op = "PLUS_EQUALS" -> "PLUS"
       [] op = "MINUS_EQUALS" -> "MINUS"
       [] op = "STAR_EQUALS" -> "STAR"
       [] op = "SLASH_EQUALS" -> "SLASH"
       [] op = "PERCENT_EQUALS" -> "PERCENT"]

\* TypeCheckVisitor::visitAssignmentExpr
visitAssignmentExpr(C, node) ==
  With([target \in {visitExpr(C, node.target)} |->
    With([value \in {visitExpr(target, node.value)} |->
      IF node.op = "EQUALS"
        THEN With([compatible \in {checkAssignmentCompatibility(
                     value, target.type, value.type)} |->
               IF ~compatible.ok
                 THEN errorIn(compatible.checker,
                              "Cannot assign incompatible type")
                 ELSE returns(compatible.checker, target.type)])
      ELSE IF node.op \notin DOMAIN compoundOperators
        THEN errorIn(value, "Unsupported compound assignment operator")
      ELSE With([result \in {checkBinaryOp(value, compoundOperators[node.op],
                                           target.type, value.type)} |->
             IF ~isAssignableTo(result.type, target.type)
               THEN errorIn(result, "Result of compound assignment is not assignable to target")
               ELSE returns(result, target.type)])])])

\* TypeCheckVisitor::visitMemberExpr
visitMemberExpr(C, node) ==
  errorIn(visitExpr(C, node.object),
          "Member access type checking not implemented")

\* TypeCheckVisitor::visitIndexExpr
visitIndexExpr(C, node) ==
  With([arrayType \in {visitExpr(C, node.array)} |->
    With([indexType \in {visitExpr(arrayType, node.index)} |->
      IF arrayType.type.kind # "Array"
        THEN errorIn(indexType, "Cannot index non-array type")
        ELSE returns(IF ~isAssignableTo(indexType.type, intType_)
                       THEN error(indexType, "Array index must be an integer")
                       ELSE indexType,
                     arrayType.type.elementType)])])

\* TypeCheckVisitor::visitNewExpr
visitNewExpr(C, node) ==
  With([classType \in {lookupType(C.scopes, C.currentScope_,
                                  node.className)} |->
    IF classType = Null THEN errorIn(C, UndefinedClass(node.className))
    ELSE returns(C, classType)])

\* TypeCheckVisitor::visitCastExpr
visitCastExpr(C, node) ==
  With([exprType \in {visitExpr(C, node.expression)} |->
    With([targetType \in {lookupType(exprType.scopes, exprType.currentScope_,
                                     node.targetType)} |->
      IF targetType = Null
        THEN errorIn(exprType, UndefinedType(node.targetType))
      ELSE IF ~isExplicitlyConvertibleTo(exprType.type, targetType)
        THEN errorIn(exprType, "Invalid cast")
      ELSE returns(exprType, targetType)])])

\* for (size_t i = 1; i < elements.size(); i++): the elements from the
\* i-th on are visited; the first of them that is not assignable to the
\* element type ends the visit with the error type
RECURSIVE checkElements(_, _, _, _)
checkElements(C, elements, elementType, i) ==
  IF i > Len(elements) THEN returns(C, Array(elementType))
  ELSE With([nextType \in {visitExpr(C, elements[i])} |->
         IF ~isAssignableTo(nextType.type, elementType)
           THEN errorIn(nextType, "Array elements must have compatible types")
           ELSE checkElements(nextType, elements, elementType, i + 1)])

\* TypeCheckVisitor::visitArrayLiteral
visitArrayLiteral(C, node) ==
  IF node.elements = <<>>
    THEN errorIn(C, "Cannot determine type of empty array literal")
    ELSE With([elementType \in {visitExpr(C, node.elements[1])} |->
           checkElements(elementType, node.elements, elementType.type, 2)])

\* TypeCheckVisitor::visitExpr
visitExpr(C, node) ==
  IF C.crashed THEN C
  ELSE IF node.kind = "Binary" THEN visitBinaryExpr(C, node)
  ELSE IF node.kind = "Unary" THEN visitUnaryExpr(C, node)
  ELSE IF node.kind = "Literal"
    THEN With([literal \in {visitLiteralExpr(node)} |->
           [C EXCEPT !.diags = @ \o literal.diags, !.type = literal.type]])
  ELSE IF node.kind = "Identifier" THEN visitIdentifierExpr(C, node)
  ELSE IF node.kind = "Call" THEN visitCallExpr(C, node)
  ELSE IF node.kind = "Assignment" THEN visitAssignmentExpr(C, node)
  ELSE IF node.kind = "Member" THEN visitMemberExpr(C, node)
  ELSE IF node.kind = "Index" THEN visitIndexExpr(C, node)
  ELSE IF node.kind = "New" THEN visitNewExpr(C, node)
  ELSE IF node.kind = "Cast" THEN visitCastExpr(C, node)
  ELSE IF node.kind = "ArrayLiteral" THEN visitArrayLiteral(C, node)
  ELSE errorIn(C, "Unhandled expression type in type checking")

\* TypeCheckVisitor::visitPrimitiveType
visitPrimitiveType(C, node) ==
  IF node.type = "VOID" THEN returns(C, voidType_)
  ELSE IF node.type = "INT" THEN returns(C, intType_)
  ELSE IF node.type = "FLOAT" THEN returns(C, floatType_)
  ELSE IF node.type = "BOOLEAN" THEN returns(C, boolType_)
  ELSE IF node.type = "STRING" THEN returns(C, stringType_)
  ELSE errorIn(C, "Unknown primitive type")

\* TypeCheckVisitor::visitNamedType
visitNamedType(C, node) ==
  With([type \in {lookupType(C.scopes, C.currentScope_, node.name)} |->
    IF type = Null THEN errorIn(C, UndefinedType(node.name))
    ELSE returns(C, type)])

RECURSIVE visitType(_, _)

\* TypeCheckVisitor::visitArrayType
visitArrayType(C, node) ==
  With([elementType \in {visitType(C, node.elementType)} |->
    IF node.size = Null THEN returns(elementType, Array(elementType.type))
    ELSE With([sizeType \in {visitExpr(elementType, node.size)} |->
           returns(IF ~isAssignableTo(sizeType.type, intType_)
                     THEN error(sizeType, "Array size must be an integer")
                     ELSE sizeType,
                   Array(elementType.type))])])

\* TypeCheckVisitor::visitPointerType
visitPointerType(C, node) ==
  With([pointeeType \in {visitType(C, node.baseType)} |->
    returns(pointeeType,
            Pointer(pointeeType.type, node.pointerKind = "Unsafe"))])

\* the types of the nodes from the i-th on, resolved in order: the checker
\* behind the visits and the types
RECURSIVE visitTypes(_, _, _, _)
visitTypes(C, nodes, i, types) ==
  IF i > Len(nodes) THEN [checker |-> C, types |-> types]
  ELSE With([type \in {visitType(C, nodes[i])} |->
         visitTypes(type, nodes, i + 1, Append(types, type.type))])

\* TypeCheckVisitor::visitFunctionType
visitFunctionType(C, node) ==
  With([returnType \in {visitType(C, node.returnType)} |->
    With([params \in {visitTypes(returnType, node.parameterTypes, 1, <<>>)} |->
      returns(params.checker, Function(returnType.type, params.types))])])

\* TypeCheckVisitor::visitUnionType
visitUnionType(C, node) ==
  With([leftType \in {visitType(C, node.left)} |->
    With([rightType \in {visitType(leftType, node.right)} |->
      returns(rightType, Union(leftType.type, rightType.type))])])

\* TypeCheckVisitor::visitSmartPointerType
visitSmartPointerType(C, node) ==
  With([pointeeType \in {visitType(C, node.pointeeType)} |->
    IF node.smartKind \in {"Shared", "Unique", "Weak"}
      THEN returns(pointeeType, Smart(pointeeType.type, node.smartKind))
      ELSE errorIn(pointeeType, "Unknown smart pointer kind")])

\* TypeCheckVisitor::visitTemplateType
visitTemplateType(C, node) ==
  With([baseType \in {visitType(C, node.baseType)} |->
    With([args \in {visitTypes(baseType, node.arguments, 1, <<>>)} |->
      IF baseType.type.kind # "Named"
        THEN errorIn(args.checker, "Template base type must be a named type")
        ELSE returns(args.checker,
                     Template(baseType.type.name, args.types))])])

\* TypeCheckVisitor::visitType
visitType(C, node) ==
  IF C.crashed THEN C
  ELSE IF node.kind = "PrimitiveType" THEN visitPrimitiveType(C, node)
  ELSE IF node.kind = "NamedType" THEN visitNamedType(C, node)
  ELSE IF node.kind = "ArrayType" THEN visitArrayType(C, node)
  ELSE IF node.kind = "PointerType" THEN visitPointerType(C, node)
  ELSE IF node.kind = "FunctionType" THEN visitFunctionType(C, node)
  ELSE IF node.kind = "UnionType" THEN visitUnionType(C, node)
  ELSE IF node.kind = "SmartPointerType" THEN visitSmartPointerType(C, node)
  ELSE IF node.kind = "TemplateType" THEN visitTemplateType(C, node)
  ELSE errorIn(C, "Unhandled type in type checking")

\* currentScope_->declareVariable(node->getName(), varType); return varType;
declared(C, name, varType) ==
  returns([C EXCEPT !.scopes = declareVariable(@, C.currentScope_, name,
                                               varType)],
          varType)

\* TypeCheckVisitor::visitVarDecl
visitVarDecl(C, node) ==
  With([init \in {IF node.initializer # Null
                    THEN visitExpr(C, node.initializer) ELSE C} |->
    IF node.type # Null
      THEN With([declaredType \in {visitType(init, node.type)} |->
             IF node.initializer = Null
               THEN declared(declaredType, node.name, declaredType.type)
               ELSE With([compatible \in {checkAssignmentCompatibility(
                            declaredType, declaredType.type, init.type)} |->
                      IF ~compatible.ok
                        THEN errorIn(compatible.checker, "Initializer type doesn't match variable type")
                        ELSE declared(compatible.checker, node.name,
                                      declaredType.type)])])
    ELSE IF node.initializer # Null
      THEN declared(init, node.name, init.type)
    ELSE errorIn(C, "Variable declaration needs either a type or an initializer for type inference")])

\* TypeCheckVisitor::visitExprStmt
visitExprStmt(C, node) == returns(visitExpr(C, node.expression), voidType_)

RECURSIVE visitStmt(_, _)
RECURSIVE visitStatements(_, _, _)
RECURSIVE visitBlock(_, _)

\* for (const auto &stmt : node->getStatements()) visitStmt(stmt.get());
visitStatements(C, statements, i) ==
  IF i > Len(statements) THEN C
  ELSE visitStatements(visitStmt(C, statements[i]), statements, i + 1)

\* visitBlock without the second swap: the scope of the block stays the
\* current one
visitBlockKeepingScope(C, node) ==
  returns(visitStatements(enterChildScope(C), node.statements, 1), voidType_)

\* TypeCheckVisitor::visitBlock
visitBlock(C, node) ==
  returns(restoreScope(visitStatements(enterChildScope(C),
                                         node.statements, 1),
                       C.currentScope_),
          voidType_)

\* auto condType = visitExpr(..); if
\* (!condType->isImplicitlyConvertibleTo(*boolType_)) error(.., message);
visitCondition(C, condition, message) ==
  With([condType \in {visitExpr(C, condition)} |->
    IF ~isImplicitlyConvertibleTo(condType.type, boolType_)
      THEN error(condType, message)
      ELSE condType])

\* TypeCheckVisitor::visitIfStmt
visitIfStmt(C, node) ==
  With([thenBranch \in {visitStmt(
          visitCondition(C, node.condition,
                         "If condition must be convertible to boolean"),
          node.thenBranch)} |->
    returns(IF node.elseBranch # Null
              THEN visitStmt(thenBranch, node.elseBranch)
              ELSE thenBranch,
            voidType_)])

\* TypeCheckVisitor::visitWhileStmt
visitWhileStmt(C, node) ==
  returns(visitStmt(visitCondition(C, node.condition,
                                   "While condition must be convertible to boolean"),
                    node.body),
          voidType_)

\* TypeCheckVisitor::visitForStmt
visitForStmt(C, node) ==
  With([init \in {IF node.initializer # Null
         THEN visitStmt(enterChildScope(C), node.initializer)
         ELSE enterChildScope(C)} |->
    With([cond \in {IF node.condition # Null
           THEN visitCondition(init, node.condition,
                               "For loop condition must be convertible to boolean")
           ELSE init} |->
      With([increment \in {IF node.increment # Null
             THEN visitExpr(cond, node.increment)
             ELSE cond} |->
        returns(restoreScope(visitStmt(increment, node.body),
                             C.currentScope_),
                voidType_)])])])

\* for (const auto &switchCase : node->getCases()): the cases from the i-th
\* on; the value of a case is compared with the type of the switch
\* expression, the body is visited in a scope of its own
RECURSIVE visitCases(_, _, _, _)
visitCases(C, cases, exprType, i) ==
  IF i > Len(cases) \/ C.crashed THEN C
  ELSE With([caseType \in {IF ~cases[i].isDefault /\ cases[i].value # Null
               THEN With([value \in {visitExpr(C, cases[i].value)} |->
                      IF ~isAssignableTo(value.type, exprType)
                        THEN error(value, "Case value type doesn't match switch expression type")
                        ELSE value])
               ELSE C} |->
         visitCases(restoreScope(visitStatements(enterChildScope(caseType),
                                                 cases[i].body, 1),
                                 C.currentScope_),
                    cases, exprType, i + 1)])

\* TypeCheckVisitor::visitSwitchStmt
visitSwitchStmt(C, node) ==
  With([exprType \in {visitExpr(C, node.expression)} |->
    returns(visitCases(exprType, node.cases, exprType.type, 1), voidType_)])

\* what *currentFunctionReturnType_ can do while the pointer is null: end
\* the process, or read something that compares either way
NullDereferenceOutcomes == {"crash", "assignable", "notAssignable"}

\* the return statements one top-level node of the ASTs holds at most
MaxNullReads == 2

\* every read is a read of its own: the outcomes of the reads of one pass
NullDereferenceRuns == [1..MaxNullReads -> NullDereferenceOutcomes]

\* TypeCheckVisitor::visitParameter
visitParameter(C, node) ==
  With([paramType \in {visitType(C, node.type)} |->
    IF node.isRef THEN returns(paramType, Reference(paramType.type))
    ELSE paramType])

\* for (const auto &param : node->getParameters()): visitParameter on the
\* parameters from the i-th on, then paramTypes.push_back and
\* declareVariable on the scope of the function; the checker and the
\* parameter types are handed back
RECURSIVE declareParameters(_, _, _, _)
declareParameters(C, parameters, i, paramTypes) ==
  IF i > Len(parameters) THEN [checker |-> C, paramTypes |-> paramTypes]
  ELSE With([paramType \in {visitParameter(C, parameters[i])} |->
         declareParameters(
           [paramType EXCEPT !.scopes =
              declareVariable(@, paramType.currentScope_,
                              parameters[i].name, paramType.type)],
           parameters, i + 1, Append(paramTypes, paramType.type))])

\* if (!returnedType->isAssignableTo(*currentFunctionReturnType_)) error(..)
checkReturnedType(C, returnedType) ==
  IF C.currentFunctionReturnType_ = Null
    THEN With([read \in {[C EXCEPT !.derefNull = TRUE,
                        !.crashed = Head(C.onNull) = "crash",
                        !.onNull = Tail(@),
                        !.returnChecks =
                          Append(@, [value |-> returnedType,
                                     against |-> Null,
                                     reported |->
                                       Head(C.onNull) = "notAssignable"])]} |->
           IF Head(C.onNull) = "notAssignable"
             THEN errorIn(read, "Return value type doesn't match function return type")
             ELSE read])
    ELSE With([logged \in {[C EXCEPT !.returnChecks =
                 Append(@, [value |-> returnedType,
                            against |-> C.currentFunctionReturnType_,
                            reported |->
                              ~isAssignableTo(returnedType,
                                              C.currentFunctionReturnType_)])]} |->
           IF ~isAssignableTo(returnedType, C.currentFunctionReturnType_)
             THEN errorIn(logged, "Return value type doesn't match function return type")
             ELSE logged])

\* TypeCheckVisitor::visitReturnStmt
visitReturnStmt(C, node) ==
  With([returned \in {IF node.value # Null THEN visitExpr(C, node.value)
       ELSE returns(C, voidType_)} |->
    returns(checkReturnedType(returned, returned.type), voidType_)])

\* TypeCheckVisitor::visitFuncDecl
visitFuncDecl(C, node) ==
  With([returnType \in {IF node.returnType # Null
         THEN visitType(enterChildScope(C), node.returnType)
         ELSE returns(enterChildScope(C), voidType_)} |->
    With([params \in {declareParameters(
           [returnType EXCEPT !.currentFunctionReturnType_ = returnType.type],
           node.parameters, 1, <<>>)} |->
      With([functionType \in {Function(returnType.type, params.paramTypes)} |->
        With([inScope \in {[params.checker EXCEPT
                !.scopes = declareFunction(@, C.currentScope_, node.name,
                                           functionType)]} |->
          returns(restoreScope(IF node.body # Null
                                 THEN visitBlock(inScope, node.body)
                                 ELSE inScope,
                               C.currentScope_),
                  functionType)])])])])

\* TypeCheckVisitor::visitClassDecl
visitClassDecl(C, node) == returns(C, Named(node.name))

\* TypeCheckVisitor::visitEnumDecl
visitEnumDecl(C, node) == returns(C, Named(node.name))

\* TypeCheckVisitor::visitInterfaceDecl
visitInterfaceDecl(C, node) == returns(C, Named(node.name))

\* TypeCheckVisitor::visitStmt
visitStmt(C, node) ==
  IF C.crashed THEN C
  ELSE IF node.kind = "ExpressionStmt" THEN visitExprStmt(C, node)
  ELSE IF node.kind = "Block" THEN visitBlock(C, node)
  ELSE IF node.kind = "IfStmt" THEN visitIfStmt(C, node)
  ELSE IF node.kind = "WhileStmt" THEN visitWhileStmt(C, node)
  ELSE IF node.kind = "ForStmt" THEN visitForStmt(C, node)
  ELSE IF node.kind = "ReturnStmt" THEN visitReturnStmt(C, node)
  ELSE IF node.kind = "SwitchStmt" THEN visitSwitchStmt(C, node)
  ELSE IF node.kind = "DeclarationStmt"
    THEN IF node.declaration.kind = "VarDecl"
           THEN visitVarDecl(C, node.declaration)
         ELSE IF node.declaration.kind = "FunctionDecl"
           THEN visitFuncDecl(C, node.declaration)
         ELSE IF node.declaration.kind = "ClassDecl"
           THEN visitClassDecl(C, node.declaration)
         ELSE IF node.declaration.kind = "EnumDecl"
           THEN visitEnumDecl(C, node.declaration)
         ELSE IF node.declaration.kind = "InterfaceDecl"
           THEN visitInterfaceDecl(C, node.declaration)
         ELSE errorIn(C, "Unsupported declaration in statement")
  ELSE errorIn(C, "Unhandled statement type in type checking")

\* the first loop of checkAST on the nodes from the i-th on: the type that
\* the visit of a class, enum or interface declaration returns is declared
\* in the current scope
RECURSIVE collectTypes(_, _, _)
collectTypes(C, nodes, i) ==
  IF i > Len(nodes) THEN C
  ELSE With([node \in {nodes[i]} |->
         With([type \in {IF node.kind = "ClassDecl"
                           THEN visitClassDecl(C, node)
                         ELSE IF node.kind = "EnumDecl"
                           THEN visitEnumDecl(C, node)
                         ELSE IF node.kind = "InterfaceDecl"
                           THEN visitInterfaceDecl(C, node)
                         ELSE C} |->
           collectTypes(
             IF node.kind \in {"ClassDecl", "EnumDecl", "InterfaceDecl"}
               THEN [C EXCEPT !.scopes = declareType(@, C.currentScope_,
                                                     node.name, type.type)]
               ELSE C,
             nodes, i + 1)])])

\* the second loop of checkAST on one node; a node that is no variable
\* declaration, function declaration or statement is skipped
checkNode(C, node) ==
  IF node.kind = "VarDecl" THEN visitVarDecl(C, node)
  ELSE IF node.kind = "FunctionDecl" THEN visitFuncDecl(C, node)
  ELSE IF node.kind \in StatementKinds THEN visitStmt(C, node)
  ELSE returns(C, Null)

\* the types the constructor declares in the global scope
BuiltinTypes ==
  [n \in {"void", "int", "float", "bool", "string"} |->
     CASE n = "void" -> voidType_
       [] n = "int" -> intType_
       [] n = "float" -> floatType_
       [] n = "bool" -> boolType_
       [] n = "string" -> stringType_]

\* TypeCheckVisitor as constructed, with the AST handed to checkAST: the
\* global scope is the only scope and the current one; collected tells
\* that the first loop of checkAST has run
CheckerCtor(nodes) ==
  [nodes |-> nodes, next |-> 1, success |-> TRUE, done |-> FALSE,
   result |-> FALSE, collected |-> FALSE,
   scopes |-> <<[TypeScopeCtor(0) EXCEPT !.types = BuiltinTypes]>>,
   currentScope_ |-> 1, lookups |-> <<>>,
   currentFunctionReturnType_ |-> Null,
   returnChecks |-> <<>>, derefNull |-> FALSE, crashed |-> FALSE]

(***************************************************************************)
(* parser/parser.cpp : the recursive-descent Parser that main.cpp runs on  *)
(* the lexer's tokens.  toks is the vector of lexer tokens (type, lexeme,  *)
(* line), cur the 0-based current_.  A parse function returns the node it  *)
(* built and the new cursor, or throws ParserError; errs are the messages  *)
(* it handed to the ErrorReporter.                                         *)
(***************************************************************************)
Returned(node, cur, errs) ==
  [thrown |-> FALSE, what |-> "", node |-> node, cur |-> cur, errs |-> errs]

Throws(what, cur, errs) ==
  [thrown |-> TRUE, what |-> what, node |-> Null, cur |-> cur, errs |-> errs]

\* r, then F on what r returned unless r threw
Then(r, F(_)) ==
  IF r.thrown THEN r
  ELSE With([s \in {F(r)} |-> [s EXCEPT !.errs = r.errs \o @]])

Parser_peek(toks, cur) == toks[cur + 1]

Parser_previous(toks, cur) == toks[cur]

Parser_isAtEnd(toks, cur) == Parser_peek(toks, cur).type = "END_OF_FILE"

Parser_check(toks, cur, type) ==
  IF Parser_isAtEnd(toks, cur) THEN FALSE
  ELSE Parser_peek(toks, cur).type = type

Parser_advance(toks, cur) ==
  IF ~Parser_isAtEnd(toks, cur) THEN cur + 1 ELSE cur

\* match(t1) || match(t2) || ... : does one of the kinds match?
Parser_matches(toks, cur, types) ==
  \E type \in types : Parser_check(toks, cur, type)

\* Parser::consume
Parser_consume(toks, cur, type, message) ==
  IF Parser_check(toks, cur, type)
    THEN Returned(Parser_previous(toks, Parser_advance(toks, cur)),
                  Parser_advance(toks, cur), <<>>)
    ELSE Throws(message, cur, <<>>)

\* Parser::error : report at the current token, then throw
Parser_error(cur, message) == Throws(message, cur, <<message>>)

\* Parser::type
Parser_type(toks, cur) ==
  IF Parser_matches(toks, cur,
                    {"TYPE_INT", "TYPE_FLOAT", "TYPE_STRING", "TYPE_BOOLEAN"})
    THEN Returned([kind |-> "BasicType",
                   name |-> Parser_peek(toks, cur).lexeme],
                  Parser_advance(toks, cur), <<>>)
    ELSE Throws("Expect type.", cur, <<>>)

\* the chain of binary levels from Parser::logicalOr down to Parser::factor,
\* in the order each calls the next, with the operators it loops on
ParserBinaryLevels ==
  << {"OR"}, {"AND"}, {"BITWISE_OR"}, {"BITWISE_XOR"}, {"BITWISE_AND"},
     {"LEFT_SHIFT", "RIGHT_SHIFT"}, {"EQUALS", "NOT_EQUALS"},
     {"LESS_THAN", "GREATER_THAN", "LESS_EQUAL", "GREATER_EQUAL"},
     {"PLUS", "MINUS"}, {"MULTIPLY", "DIVIDE", "MODULO"} >>

ParserCompoundAssignOps ==
  {"OR_ASSIGN", "AND_ASSIGN", "XOR_ASSIGN", "LEFT_SHIFT_ASSIGN",
   "RIGHT_SHIFT_ASSIGN", "PLUS_ASSIGN", "MINUS_ASSIGN", "MULTIPLY_ASSIGN",
   "DIVIDE_ASSIGN", "MODULO_ASSIGN"}

RECURSIVE Parser_assignment(_, _)
RECURSIVE Parser_binary(_, _, _)
RECURSIVE Parser_binaryLoop(_, _, _)
RECURSIVE Parser_unary(_, _)
RECURSIVE Parser_call(_, _)
RECURSIVE Parser_callLoop(_, _)
RECURSIVE Parser_arguments(_, _, _)
RECURSIVE Parser_primary(_, _)

\* Parser::expression
Parser_expression(toks, cur) == Parser_assignment(toks, cur)

\* the two branches of Parser::assignment behind the operator at expr.cur
Parser_assignTo(toks, expr, kind, message) ==
  Then(Parser_assignment(toks, Parser_advance(toks, expr.cur)),
       LAMBDA value :
    IF expr.node.kind = "Variable"
      THEN Returned([kind |-> kind,
                     op |-> Parser_peek(toks, expr.cur).type,
                     target |-> expr.node, value |-> value.node],
                    value.cur, <<>>)
      ELSE Parser_error(value.cur, message))

\* Parser::assignment
Parser_assignment(toks, cur) ==
  Then(Parser_binary(1, toks, cur), LAMBDA expr :
    IF Parser_check(toks, expr.cur, "ASSIGN")
      THEN Parser_assignTo(toks, expr, "Assignment",
                           "Invalid assignment target.")
    ELSE IF Parser_matches(toks, expr.cur, ParserCompoundAssignOps)
      THEN Parser_assignTo(toks, expr, "CompoundAssignment",
                           "Invalid compound assignment target.")
    ELSE Returned(expr.node, expr.cur, <<>>))

\* the operand of a binary level: the next level, Parser::unary behind the
\* last one
Parser_operand(level, toks, cur) ==
  IF level < Len(ParserBinaryLevels)
    THEN Parser_binary(level + 1, toks, cur)
    ELSE Parser_unary(toks, cur)

\* while (match(op...)) { right = operand(); expr = BinaryOp(op, expr, right) }
Parser_binaryLoop(level, toks, expr) ==
  IF Parser_matches(toks, expr.cur, ParserBinaryLevels[level])
    THEN Then(Parser_operand(level, toks, Parser_advance(toks, expr.cur)),
              LAMBDA right :
           Parser_binaryLoop(level, toks,
             Returned([kind |-> "BinaryOp",
                       op |-> Parser_peek(toks, expr.cur).type,
                       left |-> expr.node, right |-> right.node],
                      right.cur, <<>>)))
    ELSE Returned(expr.node, expr.cur, <<>>)

\* Parser::logicalOr ... Parser::factor
Parser_binary(level, toks, cur) ==
  Then(Parser_operand(level, toks, cur), LAMBDA expr :
    Parser_binaryLoop(level, toks, expr))

\* Parser::unary
Parser_unary(toks, cur) ==
  IF Parser_matches(toks, cur, {"NOT", "MINUS", "BITWISE_NOT"})
    THEN Then(Parser_unary(toks, Parser_advance(toks, cur)), LAMBDA right :
           Returned([kind |-> "UnaryOp", op |-> Parser_peek(toks, cur).type,
                     right |-> right.node], right.cur, <<>>))
    ELSE Parser_call(toks, cur)

\* do { arguments.push_back(expression()); } while (match(COMMA));
Parser_arguments(toks, cur, arguments) ==
  Then(Parser_expression(toks, cur), LAMBDA arg :
    IF Parser_check(toks, arg.cur, "COMMA")
      THEN Parser_arguments(toks, Parser_advance(toks, arg.cur),
                            Append(arguments, arg.node))
      ELSE Returned(Append(arguments, arg.node), arg.cur, <<>>))

\* the loop of Parser::call
Parser_callLoop(toks, expr) ==
  IF Parser_check(toks, expr.cur, "LEFT_PAREN")
    THEN Then(IF ~Parser_check(toks, Parser_advance(toks, expr.cur),
                               "RIGHT_PAREN")
                THEN Parser_arguments(toks, Parser_advance(toks, expr.cur),
                                      <<>>)
                ELSE Returned(<<>>, Parser_advance(toks, expr.cur), <<>>),
              LAMBDA arguments :
           Then(Parser_consume(toks, arguments.cur, "RIGHT_PAREN",
                               "Expect ')' after arguments."),
                LAMBDA paren :
             Parser_callLoop(toks,
               Returned([kind |-> "Call", callee |-> expr.node,
                         arguments |-> arguments.node], paren.cur, <<>>))))
    ELSE Returned(expr.node, expr.cur, <<>>)

\* Parser::call
Parser_call(toks, cur) ==
  Then(Parser_primary(toks, cur), LAMBDA expr : Parser_callLoop(toks, expr))

\* ast::Variable::Variable(lexer::Token t) : Expression(std::move(t)),
\* name(t.lexeme): the base class is constructed first and moves the token
\* away, so name is copied from the lexeme of a moved-from token, which is
\* the empty string; the identifier survives in Expression::token only
Variable(token) == [kind |-> "Variable", name |-> <<>>]

\* Parser::primary
Parser_primary(toks, cur) ==
  IF Parser_matches(toks, cur,
                    {"NUMBER_LITERAL", "STRING_LITERAL", "BOOLEAN_LITERAL"})
    THEN Returned([kind |-> "Literal",
                   value |-> Parser_peek(toks, cur).lexeme],
                  Parser_advance(toks, cur), <<>>)
  ELSE IF Parser_check(toks, cur, "NULL_LITERAL")
    THEN Returned([kind |-> "Literal", value |-> <<"null">>],
                  Parser_advance(toks, cur), <<>>)
  ELSE IF Parser_check(toks, cur, "UNDEFINED_LITERAL")
    THEN Returned([kind |-> "Literal", value |-> <<"undefined">>],
                  Parser_advance(toks, cur), <<>>)
  ELSE IF Parser_check(toks, cur, "IDENTIFIER")
    THEN Returned(Variable(Parser_peek(toks, cur)),
                  Parser_advance(toks, cur), <<>>)
  ELSE IF Parser_check(toks, cur, "LEFT_PAREN")
    THEN Then(Parser_expression(toks, Parser_advance(toks, cur)),
              LAMBDA expr :
           Then(Parser_consume(toks, expr.cur, "RIGHT_PAREN",
                               "Expect ')' after expression."),
                LAMBDA paren : Returned(expr.node, paren.cur, <<>>)))
  ELSE Throws("Expect expression.", cur, <<>>)

\* the loop of Parser::synchronize, behind its first advance()
RECURSIVE Parser_synchronizeLoop(_, _)
Parser_synchronizeLoop(toks, cur) ==
  IF Parser_isAtEnd(toks, cur) THEN cur
  ELSE IF Parser_previous(toks, cur).type \in {"SEMICOLON", "RIGHT_BRACE"}
    THEN cur
  ELSE IF Parser_peek(toks, cur).type \in
            {"FUNCTION", "LET", "CONST", "IF", "RETURN", "FOR", "WHILE"}
    THEN cur
  ELSE Parser_synchronizeLoop(toks, Parser_advance(toks, cur))

\* Parser::synchronize
Parser_synchronize(toks, cur) ==
  Parser_synchronizeLoop(toks, Parser_advance(toks, cur))

RECURSIVE Parser_declaration(_, _)
RECURSIVE Parser_statement(_, _)
RECURSIVE Parser_blockLoop(_, _, _)

\* Parser::varDeclaration, with the cursor behind the keyword
Parser_varDeclaration(toks, cur) ==
  Then(Parser_consume(toks, cur, "IDENTIFIER", "Expect variable name."),
       LAMBDA name :
    Then(Parser_consume(toks, name.cur, "COLON",
                        "Expect ':' after variable name."), LAMBDA colon :
      Then(Parser_type(toks, colon.cur), LAMBDA varType :
        Then(IF Parser_check(toks, varType.cur, "ASSIGN")
               THEN Parser_expression(toks, Parser_advance(toks, varType.cur))
               ELSE Returned(Null, varType.cur, <<>>),
             LAMBDA init :
          With([decl \in {[kind |-> "VarDeclaration", name |-> name.node.lexeme,
                type |-> varType.node, initializer |-> init.node,
                isConst |-> Parser_previous(toks, cur).type = "CONST"]} |->
            IF \/ Parser_peek(toks, init.cur).line >
                    Parser_previous(toks, init.cur).line
               \/ Parser_peek(toks, init.cur).type = "END_OF_FILE"
              THEN Returned(decl, init.cur, <<>>)
              ELSE Then(Parser_consume(toks, init.cur, "SEMICOLON",
                     "Expect ';' after variable declaration on same line."),
                        LAMBDA semi : Returned(decl, semi.cur, <<>>))])))))

\* Parser::isBlockEnd
Parser_isBlockEnd(toks, cur) ==
  Parser_peek(toks, cur).type = "RIGHT_BRACE" \/ Parser_isAtEnd(toks, cur)

\* the loop of Parser::block
Parser_blockLoop(toks, cur, statements) ==
  IF ~Parser_isBlockEnd(toks, cur)
    THEN Then(Parser_declaration(toks, cur), LAMBDA stmt :
           Parser_blockLoop(toks, stmt.cur,
                            IF stmt.node # Null
                              THEN Append(statements, stmt.node)
                              ELSE statements))
    ELSE Then(Parser_consume(toks, cur, "RIGHT_BRACE",
                             "Expect '}' after block."), LAMBDA brace :
           Returned(statements, brace.cur, <<>>))

\* Parser::block
Parser_block(toks, cur) == Parser_blockLoop(toks, cur, <<>>)

\* do { name; ':'; type } while (match(COMMA)) of Parser::functionDeclaration
RECURSIVE Parser_parameters(_, _, _)
Parser_parameters(toks, cur, parameters) ==
  Then(Parser_consume(toks, cur, "IDENTIFIER", "Expect parameter name."),
       LAMBDA paramName :
    Then(Parser_consume(toks, paramName.cur, "COLON",
                        "Expect ':' after parameter name."), LAMBDA colon :
      Then(Parser_type(toks, colon.cur), LAMBDA paramType :
        IF Parser_check(toks, paramType.cur, "COMMA")
          THEN Parser_parameters(toks, Parser_advance(toks, paramType.cur),
                 Append(parameters, <<paramName.node.lexeme, paramType.node>>))
          ELSE Returned(
                 Append(parameters, <<paramName.node.lexeme, paramType.node>>),
                 paramType.cur, <<>>))))

\* Parser::functionDeclaration, with the cursor behind the keyword
Parser_functionDeclaration(toks, cur) ==
  Then(Parser_consume(toks, cur, "IDENTIFIER", "Expect function name."),
       LAMBDA name :
    Then(Parser_consume(toks, name.cur, "LEFT_PAREN",
                        "Expect '(' after function name."), LAMBDA open :
      Then(IF ~Parser_check(toks, open.cur, "RIGHT_PAREN")
             THEN Parser_parameters(toks, open.cur, <<>>)
             ELSE Returned(<<>>, open.cur, <<>>), LAMBDA parameters :
        Then(Parser_consume(toks, parameters.cur, "RIGHT_PAREN",
                            "Expect ')' after parameters."), LAMBDA close :
          Then(Parser_consume(toks, close.cur, "COLON",
                              "Expect ':' before return type."),
               LAMBDA colon :
            Then(Parser_type(toks, colon.cur), LAMBDA returnType :
              Then(Parser_consume(toks, returnType.cur, "LEFT_BRACE",
                                  "Expect '{' before function body."),
                   LAMBDA brace :
                Then(Parser_block(toks, brace.cur), LAMBDA body :
                  Returned([kind |-> "FunctionDeclaration",
                            name |-> name.node.lexeme,
                            parameters |-> parameters.node,
                            returnType |-> returnType.node,
                            body |-> body.node], body.cur, <<>>)))))))))

\* Parser::ifStatement, with the cursor behind 'if'
Parser_ifStatement(toks, cur) ==
  Then(Parser_consume(toks, cur, "LEFT_PAREN", "Expect '(' after 'if'."),
       LAMBDA open :
    Then(Parser_expression(toks, open.cur), LAMBDA condition :
      Then(Parser_consume(toks, condition.cur, "RIGHT_PAREN",
                          "Expect ')' after if condition."), LAMBDA close :
        Then(Parser_statement(toks, close.cur), LAMBDA thenBranch :
          Then(IF Parser_check(toks, thenBranch.cur, "ELSE")
                 THEN Parser_statement(toks,
                                       Parser_advance(toks, thenBranch.cur))
                 ELSE Returned(Null, thenBranch.cur, <<>>),
               LAMBDA elseBranch :
            Returned([kind |-> "If", condition |-> condition.node,
                      thenBranch |-> thenBranch.node,
                      elseBranch |-> elseBranch.node],
                     elseBranch.cur, <<>>))))))

\* Parser::returnStatement, with the cursor behind 'return'
Parser_returnStatement(toks, cur) ==
  Then(IF ~Parser_check(toks, cur, "SEMICOLON")
         THEN Parser_expression(toks, cur)
         ELSE Returned(Null, cur, <<>>), LAMBDA value :
    Then(Parser_consume(toks, value.cur, "SEMICOLON",
                        "Expect ';' after return value."), LAMBDA semi :
      Returned([kind |-> "Return", value |-> value.node], semi.cur, <<>>)))

\* Parser::expressionStatement
Parser_expressionStatement(toks, cur) ==
  Then(Parser_expression(toks, cur), LAMBDA expr :
    With([stmt \in {[kind |-> "ExpressionStmt", expression |-> expr.node]} |->
      IF \/ Parser_isAtEnd(toks, expr.cur)
         \/ Parser_peek(toks, expr.cur).line >
              Parser_previous(toks, expr.cur).line
        THEN Returned(stmt, expr.cur, <<>>)
      ELSE IF ~Parser_check(toks, expr.cur, "SEMICOLON")
        THEN Throws("Expect ';' after expression on same line.", expr.cur,
                    <<>>)
      ELSE Returned(stmt, Parser_advance(toks, expr.cur), <<>>)]))

\* Parser::statement
Parser_statement(toks, cur) ==
  IF Parser_check(toks, cur, "IF")
    THEN Parser_ifStatement(toks, Parser_advance(toks, cur))
  ELSE IF Parser_check(toks, cur, "RETURN")
    THEN Parser_returnStatement(toks, Parser_advance(toks, cur))
  ELSE IF Parser_check(toks, cur, "LEFT_BRACE")
    THEN Then(Parser_block(toks, Parser_advance(toks, cur)), LAMBDA body :
           Returned([kind |-> "Block", statements |-> body.node], body.cur,
                    <<>>))
  ELSE Parser_expressionStatement(toks, cur)

\* Parser::declaration : a ParserError is caught here, and the declaration
\* is nullptr
Parser_declaration(toks, cur) ==
  With([decl \in {IF Parser_matches(toks, cur, {"LET", "CONST"})
         THEN Parser_varDeclaration(toks, Parser_advance(toks, cur))
       ELSE IF Parser_check(toks, cur, "FUNCTION")
         THEN Parser_functionDeclaration(toks, Parser_advance(toks, cur))
       ELSE Parser_statement(toks, cur)} |->
    IF decl.thrown
      THEN Returned(Null, Parser_synchronize(toks, decl.cur), decl.errs)
      ELSE decl])

\* Parser::Parser, and where processCode() is: stage "lex" until the parser
\* runs, parsed once Parser::parse has returned
PipelineCtor ==
  [stage |-> "lex", current_ |-> 0, statements |-> <<>>, errors |-> <<>>,
   parsed |-> FALSE]

\* statements.push_back(declaration()); declaration() lets no ParserError
\* out, so the catch of Parser::parse is never entered
Parser_parseStep(P, toks) ==
  With([decl \in {Parser_declaration(toks, P.current_)} |->
    [P EXCEPT !.current_ = decl.cur,
              !.statements = Append(@, decl.node),
              !.errors = @ \o decl.errs]])

\* Parser::parse from the state P on
RECURSIVE Parser_parse(_, _)
Parser_parse(P, toks) ==
  IF ~Parser_isAtEnd(toks, P.current_)
    THEN Parser_parse(Parser_parseStep(P, toks), toks)
    ELSE [P EXCEPT !.stage = "done", !.parsed = TRUE]

(***************************************************************************)
(* core/diagnostics/error_reporter.cpp : core::ErrorReporter.  A location  *)
(* is its line, its column and whether the line's text could be loaded;    *)
(* what report() prints to std::cerr is no part of the reporter's state.   *)
(***************************************************************************)
\* thrown: the last call left by an exception
ErrorReporterCtor ==
  [diagnostics_ |-> <<>>, errorCount_ |-> 0, thrown |-> FALSE]

\* Diagnostic::Diagnostic
Diagnostic(severity, location, message, code) ==
  [severity |-> severity, location |-> location, message |-> message,
   code |-> code]

\* ErrorReporter::report: the diagnostic is stored first; when the line of
\* the location was loaded, String pointer_line(location.column - 1, ' ')
\* throws std::length_error for a column below 1
report(R, severity, location, message, code) ==
  [R EXCEPT !.diagnostics_ =
              Append(@, Diagnostic(severity, location, message, code)),
            !.thrown = location.line_content /\ location.column - 1 < 0]

\* error() without errorCount_++
errorWithoutCount(R, location, message, code) ==
  report(R, "Error", location, message, code)

\* ErrorReporter::error: errorCount_++ is not reached when report() throws
ErrorReporter_error(R, location, message, code) ==
  With([reported \in {report(R, "Error", location, message, code)} |->
    IF reported.thrown THEN reported
    ELSE [reported EXCEPT !.errorCount_ = @ + 1]])

\* ErrorReporter::warning
ErrorReporter_warning(R, location, message, code) ==
  report(R, "Warning", location, message, code)

\* ErrorReporter::info
ErrorReporter_info(R, location, message, code) ==
  report(R, "Info", location, message, code)

\* ErrorReporter::clear
ErrorReporter_clear(R) ==
  [R EXCEPT !.diagnostics_ = <<>>, !.errorCount_ = 0, !.thrown = FALSE]

hasErrors(R) == R.errorCount_ > 0

errorCount(R) == R.errorCount_

(***************************************************************************)
(* Specification of the cursor: any sequence of cursor operations on any   *)
(* stream the constructor can build.                                       *)
(***************************************************************************)
\* arg: the kinds passed to check / match / matchAny; pos: the position
\* passed to setPosition; before: the cursor when the call was made
NoCall == [op |-> "none", arg |-> <<>>, pos |-> 0, before |-> 0]

StreamInputs ==
  LET real == SeqsUpTo(StreamKinds, MaxStreamLen)
  IN real \cup {Append(s, "END_OF_FILE") : s \in real}

\* the components that take no part in a specification stay as constructed
LexIdle == lexer = LexerCtor(<<>>) /\ lexDone = FALSE

PipIdle == pipeline = PipelineCtor

RepIdle == reporter = ErrorReporterCtor /\ reportCalls = <<>>

\* no expression parser has been called
NoExprRun ==
  [impl |-> "none", toks |-> <<>>, done |-> FALSE,
   node |-> Null, cur |-> 0, diags |-> <<>>, thrown |-> FALSE]

ExpIdle == exprRun = NoExprRun

TSIdle ==
  /\ tokens_ = TokenStreamCtor(<<>>)
  /\ current_ = 0
  /\ lastCall = NoCall
  /\ ret = FALSE
  /\ everMoved = FALSE

ParIdle ==
  /\ parser = ParserCtor("h")
  /\ diagnostics = <<>>
  /\ checker = CheckerCtor(<<>>)

TSFrame == UNCHANGED <<lexVars, parVars, chkVars, pipVars, repVars, expVars>>

TSInit ==
  /\ \E toks \in StreamInputs : tokens_ = TokenStreamCtor(toks)
  /\ current_ = 0
  /\ lastCall = NoCall
  /\ ret = FALSE
  /\ everMoved = FALSE
  /\ LexIdle
  /\ PipIdle
  /\ RepIdle
  /\ ExpIdle
  /\ ParIdle

Moved(cur) == everMoved' = (everMoved \/ cur # 0)

Advance ==
  /\ current_' = advance(tokens_, current_)
  /\ lastCall' = [op |-> "advance", arg |-> <<>>, pos |-> 0, before |-> current_]
  /\ UNCHANGED ret
  /\ Moved(current_')
  /\ UNCHANGED tokens_
  /\ TSFrame

Check ==
  \E k \in StreamKinds \cup {"END_OF_FILE"} :
    /\ ret' = check(tokens_, current_, k)
    /\ lastCall' = [op |-> "check", arg |-> <<k>>, pos |-> 0, before |-> current_]
    /\ UNCHANGED <<tokens_, current_, everMoved>>
    /\ TSFrame

Match ==
  \E k \in StreamKinds \cup {"END_OF_FILE"} :
    LET m == match(tokens_, current_, k)
    IN /\ current_' = m.cur
       /\ ret' = m.ret
       /\ lastCall' = [op |-> "match", arg |-> <<k>>, pos |-> 0, before |-> current_]
       /\ Moved(m.cur)
       /\ UNCHANGED tokens_
       /\ TSFrame

MatchAny ==
  \E types \in SeqsUpTo({"IDENTIFIER", "SEMICOLON", "LET"}, 2) :
    LET m == matchAny(tokens_, current_, types)
    IN /\ current_' = m.cur
       /\ ret' = m.ret
       /\ lastCall' = [op |-> "matchAny", arg |-> types, pos |-> 0,
                        before |-> current_]
       /\ Moved(m.cur)
       /\ UNCHANGED tokens_
       /\ TSFrame

SetPosition ==
  \E p \in 0..(MaxStreamLen + 2) :
    /\ current_' = setPosition(tokens_, p)
    /\ lastCall' = [op |-> "setPosition", arg |-> <<>>, pos |-> p,
                     before |-> current_]
    /\ UNCHANGED ret
    /\ Moved(current_')
    /\ UNCHANGED tokens_
    /\ TSFrame

Synchronize ==
  /\ current_' = TokenStream_synchronize(tokens_, current_)
  /\ lastCall' = [op |-> "synchronize", arg |-> <<>>, pos |-> 0,
                   before |-> current_]
  /\ UNCHANGED ret
  /\ Moved(current_')
  /\ UNCHANGED tokens_
  /\ TSFrame

TSNext ==
  \/ Advance
  \/ Check
  \/ Match
  \/ MatchAny
  \/ SetPosition
  \/ Synchronize

TSSpec == TSInit /\ [][TSNext]_vars

(***************************************************************************)
(* Specification of the lexer: tokenize() on any source of the bounded     *)
(* families below, one step per pass of its loop.                          *)
(***************************************************************************)
LexAlphabet == {"a", "1", " ", "\n", ";", "}", "+", "\"", "\\", "/", "*"}

\* a smaller alphabet for longer sources with line breaks
LineAlphabet == {"a", "+", " ", "\n", ";"}

LexSources ==
  SeqsUpTo(LexAlphabet, MaxSrcLen) \cup SeqsUpTo(LineAlphabet, MaxLineSrcLen)

\* No run in which every pass of the loop consumes a character emits more
\* than two tokens per character (a synthetic semicolon and the token
\* scanned), so only a run that stopped consuming gets this far.
LexTokenCap(src) == 2 * Len(src) + 2

\* the bound of the exploration: the runs are followed up to LexTokenCap
\* tokens
WithinTokenCap == Len(lexer.tokens_) < LexTokenCap(lexer.source_)

LexFrame == UNCHANGED <<tsVars, parVars, chkVars, pipVars, repVars, expVars>>

LexInit ==
  /\ \E src \in LexSources : lexer = LexerCtor(src)
  /\ lexDone = FALSE
  /\ TSIdle
  /\ PipIdle
  /\ RepIdle
  /\ ExpIdle
  /\ ParIdle

\* while (!isAtEnd()) { skipWhitespace(); if (!isAtEnd()) scanToken(); }
TokenizeIter ==
  /\ ~lexDone
  /\ ~Lexer_isAtEnd(lexer)
  /\ lexer' = tokenizeStep(lexer)
  /\ UNCHANGED lexDone
  /\ LexFrame

\* tokens_.emplace_back(END_OF_FILE, ...); return tokens_;
TokenizeReturn ==
  /\ ~lexDone
  /\ Lexer_isAtEnd(lexer)
  /\ lexer' = tokenizeEnd(lexer)
  /\ lexDone' = TRUE
  /\ LexFrame

LexNext ==
  \/ WithinTokenCap /\ TokenizeIter
  \/ TokenizeReturn

LexSpec == LexInit /\ [][LexNext]_vars

(***************************************************************************)
(* Specification of the loop of tokenize() with the logs forgotten: the    *)
(* lexer keeps of tokens_ what a pass reads (tokens_.empty() and           *)
(* tokens_.back()) and whether the number of tokens is odd, and of the     *)
(* errors whether there are any.  A run of the code is a run of this       *)
(* specification, pass by pass, and no bound stops it.                     *)
(***************************************************************************)
\* The sources of the termination check: strings with valid and invalid
\* escapes and without a closing quote, comments with and without an end,
\* an unknown character and an unknown operator (">>").
EscapeAlphabet == {"\"", "\\", "n", "/", "*", "#", ">"}

\* tokens_ cut to its last token when their number is odd and to its last
\* two when it is even
lastTokens(tokens) ==
  IF Len(tokens) <= 2 THEN tokens
  ELSE SubSeq(tokens, Len(tokens) - 1 + (Len(tokens) % 2), Len(tokens))

\* the lexer with its logs forgotten
forget(L) ==
  [L EXCEPT !.tokens_ = lastTokens(@),
            !.errorCount = IF @ > 0 THEN 1 ELSE 0,
            !.inserted = <<>>]

LexLoopInit ==
  /\ \E src \in SeqsUpTo(EscapeAlphabet, MaxEscapeSrcLen) :
       lexer = LexerCtor(src)
  /\ lexDone = FALSE
  /\ TSIdle
  /\ PipIdle
  /\ RepIdle
  /\ ExpIdle
  /\ ParIdle

\* one pass of the loop of tokenize()
TokenizePass ==
  /\ ~lexDone
  /\ ~Lexer_isAtEnd(lexer)
  /\ lexer' = forget(tokenizeStep(lexer))
  /\ UNCHANGED lexDone
  /\ LexFrame

\* tokens_.emplace_back(END_OF_FILE, ...); return tokens_;
TokenizeLeave ==
  /\ ~lexDone
  /\ Lexer_isAtEnd(lexer)
  /\ lexer' = forget(tokenizeEnd(lexer))
  /\ lexDone' = TRUE
  /\ LexFrame

LexLoopNext ==
  \/ TokenizePass
  \/ TokenizeLeave

\* tokenize() runs on one thread that keeps running its loop
LexLoopSpec == LexLoopInit /\ [][LexLoopNext]_vars /\ WF_vars(LexLoopNext)

(***************************************************************************)
(* Specification of the lexer on lines of statements: tokenize() on a      *)
(* source made of up to MaxWords of the words below.                       *)
(***************************************************************************)
KeywordWords ==
  {<<"l", "e", "t", " ">>, <<"i", "f", " ">>, <<"a", " ">>, <<";">>,
   <<"\n">>}

\* the sources of exactly n words
RECURSIVE WordsJoined(_)
WordsJoined(n) ==
  IF n = 0 THEN {<<>>}
  ELSE {w \o rest : w \in KeywordWords, rest \in WordsJoined(n - 1)}

KeywordSources == UNION {WordsJoined(n) : n \in 0..MaxWords}

KeywordLexInit ==
  /\ \E src \in KeywordSources : lexer = LexerCtor(src)
  /\ lexDone = FALSE
  /\ TSIdle
  /\ PipIdle
  /\ RepIdle
  /\ ExpIdle
  /\ ParIdle

KeywordLexSpec == KeywordLexInit /\ [][LexNext]_vars

\* tokenize() on the sources of both families
LexAllSpec == (LexInit \/ KeywordLexInit) /\ [][LexNext]_vars

(***************************************************************************)
(* Specification of the parser: parse() on any token sequence of the       *)
(* bounded alphabet, as the lexer delivers it (END_OF_FILE last), under    *)
(* either definition of StatementParseVisitor.                             *)
(***************************************************************************)
ParseKinds ==
  {"IDENTIFIER", "SEMICOLON", "LEFT_BRACE", "RIGHT_BRACE", "SWITCH", "CLASS",
   "LET"}

\* a ;  ( a )  { }  { a ; }
ExprStatement == <<"IDENTIFIER", "SEMICOLON">>

Parenthesized == <<"LEFT_PAREN", "IDENTIFIER", "RIGHT_PAREN">>

EmptyBlock == <<"LEFT_BRACE", "RIGHT_BRACE">>

BlockOfOne == <<"LEFT_BRACE">> \o ExprStatement \o <<"RIGHT_BRACE">>

\* statements of every branch of parseStatement(), with statements and
\* with blocks as their bodies, and declarations as the body of a loop
StatementTemplates ==
  {<<"IF">> \o Parenthesized \o ExprStatement \o <<"ELSE">> \o ExprStatement,
   <<"IF">> \o Parenthesized \o BlockOfOne \o <<"ELSE">> \o EmptyBlock,
   <<"IF">> \o Parenthesized \o EmptyBlock \o ExprStatement,
   <<"WHILE">> \o Parenthesized \o BlockOfOne,
   <<"WHILE">> \o Parenthesized \o <<"IF">> \o Parenthesized \o EmptyBlock
     \o <<"ELSE", "DO">> \o EmptyBlock \o <<"WHILE">> \o Parenthesized
     \o <<"SEMICOLON">>,
   <<"DO">> \o BlockOfOne \o <<"WHILE">> \o Parenthesized \o <<"SEMICOLON">>,
   <<"DO">> \o ExprStatement \o <<"WHILE">> \o Parenthesized
     \o <<"SEMICOLON">>,
   <<"TRY">> \o EmptyBlock \o <<"CATCH">> \o Parenthesized \o EmptyBlock
     \o <<"CATCH">> \o Parenthesized \o ExprStatement \o <<"FINALLY">>
     \o EmptyBlock,
   <<"TRY">> \o EmptyBlock
     \o <<"CATCH", "LEFT_PAREN", "IDENTIFIER", "COLON", "IDENTIFIER",
          "RIGHT_PAREN">> \o EmptyBlock \o ExprStatement,
   <<"TRY">> \o ExprStatement \o <<"FINALLY">> \o ExprStatement,
   <<"TRY">> \o EmptyBlock \o ExprStatement,
   <<"RETURN", "SEMICOLON">>,
   <<"RETURN">> \o ExprStatement,
   <<"BREAK", "SEMICOLON">>,
   <<"BREAK">> \o ExprStatement,
   <<"CONTINUE", "SEMICOLON">>,
   <<"CONTINUE">> \o ExprStatement,
   <<"THROW">> \o ExprStatement,
   <<"IDENTIFIER", "DOT", Asm, "SEMICOLON">>,
   <<"LEFT_BRACE", "ATTRIBUTE", Asm, "LEFT_PAREN", "STRING_LITERAL", "COMMA",
     "STRING_LITERAL", "RIGHT_PAREN", "SEMICOLON", "RIGHT_BRACE">>,
   <<"LEFT_BRACE", "ATTRIBUTE">> \o ExprStatement \o <<"RIGHT_BRACE">>,
   <<"LEFT_BRACE", "RETURN">> \o ExprStatement \o <<"TRY">> \o EmptyBlock
     \o <<"FINALLY">> \o EmptyBlock \o <<"RIGHT_BRACE">>,
   <<"FOR", "LEFT_PAREN", "SEMICOLON", "SEMICOLON", "RIGHT_PAREN", "STATIC",
     "CLASS", "IDENTIFIER">> \o EmptyBlock \o ExprStatement,
   <<"FOR", "LEFT_PAREN", "SEMICOLON", "SEMICOLON", "RIGHT_PAREN",
     "FUNCTION", "IDENTIFIER", "LEFT_PAREN", "RIGHT_PAREN">> \o BlockOfOne,
   <<"IF">> \o Parenthesized
     \o <<"STATIC", "CLASS", "IDENTIFIER">> \o EmptyBlock
     \o <<"ELSE">> \o EmptyBlock}

\* the templates, each cut off behind any of its tokens
StatementInputs ==
  UNION {{SubSeq(t, 1, n) : n \in 1..Len(t)} : t \in StatementTemplates}

ParseInputs ==
  {Append(s, "END_OF_FILE") :
     s \in SeqsUpTo(ParseKinds, MaxParseLen) \cup StatementInputs}

\* a run that reports more diagnostics than this is caught in a loop
ParseDiagCap(toks) == 2 * Len(toks) + 2

ParFrame ==
  UNCHANGED <<lastCall, ret, everMoved, lexVars, chkVars, pipVars, repVars, expVars>>

ParseInit ==
  /\ \E toks \in ParseInputs : tokens_ = TokenStreamCtor(toks)
  /\ current_ = 0
  /\ lastCall = NoCall
  /\ ret = FALSE
  /\ everMoved = FALSE
  /\ LexIdle
  /\ PipIdle
  /\ RepIdle
  /\ ExpIdle
  /\ \E impl \in {"h", "cpp"} : parser = ParserCtor(impl)
  /\ diagnostics = <<>>
  /\ checker = CheckerCtor(<<>>)

Machine == [cur |-> current_, diags |-> diagnostics, p |-> parser]

Becomes(M) ==
  /\ current_' = M.cur
  /\ diagnostics' = M.diags
  /\ parser' = M.p
  /\ UNCHANGED tokens_
  /\ ParFrame

Innermost(kind) ==
  /\ ~parser.done
  /\ parser.frames # <<>>
  /\ Last(parser.frames).kind = kind

\* one iteration of while (!tokens_.isAtEnd()) in visitParse()
VisitParseIter ==
  /\ ~parser.done
  /\ parser.frames = <<>>
  /\ ~isAtEnd(tokens_, current_)
  /\ LET M == [Machine EXCEPT !.p.iterStart = Len(diagnostics),
                              !.p.lastIter = NoIter,
                              !.p.step = [loop |-> "visitParse",
                                          from |-> current_]]
         parsed == IF BaseParseVisitor_isDeclarationStart(tokens_, current_)
                     THEN parseDeclaration(tokens_, current_)
                     ELSE parseStatement(parser.impl, tokens_, current_)
     IN Becomes(call(M, parsed, tokens_))

\* return !hadError;
VisitParseReturn ==
  /\ ~parser.done
  /\ parser.frames = <<>>
  /\ isAtEnd(tokens_, current_)
  /\ Becomes([Machine EXCEPT !.p.done = TRUE,
                             !.p.result = ~parser.hadError,
                             !.p.step = NoStep])

InnermostBlock ==
  /\ ~parser.done
  /\ parser.frames # <<>>
  /\ Last(parser.frames).kind \in BlockLoops

\* one iteration of the statement loop of parseBlock()
ParseBlockIter ==
  /\ InnermostBlock
  /\ inBody(tokens_, current_)
  /\ Len(diagnostics) < ParseDiagCap(tokens_)
  /\ LET M == [Machine EXCEPT !.p.step = [loop |-> "parseBlock",
                                          from |-> current_]]
     IN Becomes(call(M, parseStatement(parser.impl, tokens_, current_),
                     tokens_))

ParseBlockReturn ==
  /\ InnermostBlock
  /\ ~inBody(tokens_, current_)
  /\ Becomes(parseBlockEnd([Machine EXCEPT !.p.step = NoStep], tokens_))

\* one iteration of the member loop of parseClassDecl()
ParseClassIter ==
  /\ Innermost("class")
  /\ inBody(tokens_, current_)
  /\ LET M == [Machine EXCEPT !.p.step = [loop |-> "parseClassDecl",
                                          from |-> current_]]
     IN Becomes(parseClassMember(M, tokens_))

ParseClassReturn ==
  /\ Innermost("class")
  /\ ~inBody(tokens_, current_)
  /\ Becomes(parseClassDeclEnd([Machine EXCEPT !.p.step = NoStep], tokens_))

ParseNext ==
  \/ VisitParseIter
  \/ VisitParseReturn
  \/ ParseBlockIter
  \/ ParseBlockReturn
  \/ ParseClassIter
  \/ ParseClassReturn

ParseSpec == ParseInit /\ [][ParseNext]_vars

(***************************************************************************)
(* Specification of BaseVisitor::parse(): the visitParse() of              *)
(* parse_visitor/base_parse_visitor.cpp on any token sequence of the       *)
(* bounded alphabet.                                                        *)
(***************************************************************************)
LegacyKinds == {"IDENTIFIER", "SEMICOLON", "LET", "CLASS", "PLUS", "EQUALS"}

\* token sequences of the constructs of the two sub-parsers; their prefixes
\* are inputs too
LegacyTemplates ==
  { <<"IDENTIFIER", "LEFT_PAREN", "RIGHT_PAREN", "SEMICOLON">>,
    <<"IDENTIFIER", "LEFT_PAREN", "NUMBER", "COMMA", "IDENTIFIER",
      "RIGHT_PAREN", "DOT", "IDENTIFIER", "PLUS_PLUS", "SEMICOLON">>,
    <<"IDENTIFIER", "LEFT_BRACKET", "NUMBER", "RIGHT_BRACKET", "AT",
      "IDENTIFIER", "SEMICOLON">>,
    <<"LEFT_BRACKET", "RIGHT_BRACKET", "SEMICOLON">>,
    <<"LEFT_BRACKET", "THIS", "COMMA", "TRUE", "RIGHT_BRACKET", "SEMICOLON">>,
    <<"NEW", "IDENTIFIER", "DOT", "IDENTIFIER", "LEFT_PAREN", "IDENTIFIER",
      "RIGHT_PAREN", "SEMICOLON">>,
    <<"NEW", "IDENTIFIER", "SEMICOLON">>,
    <<"SIZEOF", "LEFT_PAREN", "IDENTIFIER", "RIGHT_PAREN", "SEMICOLON">>,
    <<"AT", "LEFT_PAREN", "IDENTIFIER", "QUESTION", "NUMBER", "COLON",
      "NUMBER", "RIGHT_PAREN", "STAR", "MINUS", "IDENTIFIER", "SEMICOLON",
      "IDENTIFIER", "SEMICOLON">>,
    <<"LET", "IDENTIFIER", "COLON", "INT", "SEMICOLON">>,
    <<"LET", "IDENTIFIER", "COLON", "IDENTIFIER", "DOT", "IDENTIFIER",
      "LEFT_BRACKET", "RIGHT_BRACKET", "LEFT_BRACKET", "NUMBER",
      "RIGHT_BRACKET", "AT", "EQUALS", "NULL_VALUE", "SEMICOLON">>,
    <<"LET", "IDENTIFIER", "COLON", "INT", "AT", IdentifierToken("unsafe"), "AT",
      IdentifierToken("aligned"), "LEFT_PAREN", "NUMBER", "RIGHT_PAREN",
      "SEMICOLON">>,
    <<"LET", "IDENTIFIER", "COLON", "INT", "AT", "IDENTIFIER", "SEMICOLON",
      "IDENTIFIER", "SEMICOLON">>,
    <<"LET", "IDENTIFIER", "COLON", "SEMICOLON", "IDENTIFIER", "SEMICOLON">>,
    <<"LET", "ATTRIBUTE", IdentifierToken("stack"), "IDENTIFIER", "EQUALS",
      "NUMBER", "SEMICOLON">>,
    <<"CONST", "ATTRIBUTE", "IDENTIFIER", "IDENTIFIER", "EQUALS", "NUMBER",
      "SEMICOLON">>,
    <<"CONST", "ATTRIBUTE", "SEMICOLON">>,
    <<"CONST", "IDENTIFIER", "SEMICOLON">>,
    <<"FUNCTION", "IDENTIFIER", "LEFT_PAREN", "RIGHT_PAREN", "SEMICOLON">>,
    <<"FUNCTION", "IDENTIFIER", "LEFT_PAREN", "REF", "CONST", "IDENTIFIER",
      "COLON", "INT", "EQUALS", "NUMBER", "COMMA", "IDENTIFIER", "COLON",
      "IDENTIFIER", "RIGHT_PAREN", "COLON", "VOID", "ASYNC", "LET",
      "IDENTIFIER", "SEMICOLON">>,
    <<"FUNCTION", "IDENTIFIER", "LEFT_PAREN", "IDENTIFIER", "COMMA",
      "RIGHT_PAREN">>,
    <<"FUNCTION", "IDENTIFIER", "LEFT_PAREN", "RIGHT_PAREN", "COLON",
      "SEMICOLON">>,
    <<"ATTRIBUTE", "IDENTIFIER", "LET", "IDENTIFIER", "SEMICOLON">> }

LegacyInputs ==
  {Append(s, "END_OF_FILE") :
     s \in SeqsUpTo(LegacyKinds, MaxParseLen)
           \cup UNION {{SubSeq(t, 1, n) : n \in 1..Len(t)} :
                         t \in LegacyTemplates}}

LegacyParseInit ==
  /\ \E toks \in LegacyInputs : tokens_ = TokenStreamCtor(toks)
  /\ current_ = 0
  /\ lastCall = NoCall
  /\ ret = FALSE
  /\ everMoved = FALSE
  /\ LexIdle
  /\ PipIdle
  /\ RepIdle
  /\ ExpIdle
  /\ parser = ParserCtor("legacy")
  /\ diagnostics = <<>>
  /\ checker = CheckerCtor(<<>>)

\* one iteration of while (!tokens_.isAtEnd()), return false included
LegacyVisitParseIter ==
  /\ ~parser.done
  /\ ~isAtEnd(tokens_, current_)
  /\ LET M == [Machine EXCEPT !.p.step = [loop |-> "visitParse",
                                          from |-> current_]]
     IN Becomes(Legacy_visitParseBody(M, tokens_))

\* return true;
LegacyVisitParseReturn ==
  /\ ~parser.done
  /\ isAtEnd(tokens_, current_)
  /\ Becomes([Machine EXCEPT !.p.done = TRUE, !.p.result = TRUE,
                             !.p.step = NoStep])

LegacyParseNext ==
  \/ LegacyVisitParseIter
  \/ LegacyVisitParseReturn

LegacyParseSpec == LegacyParseInit /\ [][LegacyParseNext]_vars

(***************************************************************************)
(* Specification of the type checker: checkAST() on any AST of the bounded *)
(* node set.                                                                *)
(***************************************************************************)
Literal(type, value) == [kind |-> "Literal", type |-> type, value |-> value]

PrimitiveType(type) == [kind |-> "PrimitiveType", type |-> type]

NamedType(name) == [kind |-> "NamedType", name |-> name]

Parameter(name, type) == [name |-> name, type |-> type, isRef |-> FALSE]

Identifier(name) == [kind |-> "Identifier", name |-> name]

Call(callee, arguments) ==
  [kind |-> "Call", callee |-> callee, arguments |-> arguments]

Assignment(op, target, value) ==
  [kind |-> "Assignment", op |-> op, target |-> target, value |-> value]

IfStmt(condition, thenBranch, elseBranch) ==
  [kind |-> "IfStmt", condition |-> condition, thenBranch |-> thenBranch,
   elseBranch |-> elseBranch]

WhileStmt(condition, body) ==
  [kind |-> "WhileStmt", condition |-> condition, body |-> body]

ForStmt(init, condition, increment, body) ==
  [kind |-> "ForStmt", initializer |-> init, condition |-> condition,
   increment |-> increment, body |-> body]

\* SwitchStmtNode::Case
SwitchCase(isDefault, value, body) ==
  [isDefault |-> isDefault, value |-> value, body |-> body]

SwitchStmt(expression, cases) ==
  [kind |-> "SwitchStmt", expression |-> expression, cases |-> cases]

One == Literal("NUMBER", <<"1">>)

True == Literal("TRUE", <<>>)

IntType == PrimitiveType("INT")

\* x = 1, x = true, x += 1, x <<= 1, x.m, [1][1], [1][true], 1[1], new A,
\* new B, casts of 1 to bool, string and B, [], [1, 1], [1, true, x], this,
\* x += 1.5, and binary and unary expressions of every operator class over
\* 1 and true
AstMoreExpressions ==
  {Assignment("EQUALS", Identifier("x"), One),
   Assignment("EQUALS", Identifier("x"), True),
   Assignment("PLUS_EQUALS", Identifier("x"), One),
   Assignment("LEFT_SHIFT_EQUALS", Identifier("x"), One),
   [kind |-> "Member", object |-> Identifier("x"), member |-> "m"],
   [kind |-> "Index", array |-> [kind |-> "ArrayLiteral", elements |-> <<One>>],
    index |-> One],
   [kind |-> "Index", array |-> [kind |-> "ArrayLiteral", elements |-> <<One>>],
    index |-> True],
   [kind |-> "Index", array |-> One, index |-> One],
   [kind |-> "New", className |-> "A", arguments |-> <<>>],
   [kind |-> "New", className |-> "B", arguments |-> <<>>],
   [kind |-> "Cast", targetType |-> "bool", expression |-> One],
   [kind |-> "Cast", targetType |-> "string", expression |-> One],
   [kind |-> "Cast", targetType |-> "B", expression |-> One],
   [kind |-> "ArrayLiteral", elements |-> <<>>],
   [kind |-> "ArrayLiteral", elements |-> <<One, One>>],
   [kind |-> "ArrayLiteral", elements |-> <<One, True, Identifier("x")>>],
   [kind |-> "This"]}
    \cup {Assignment("PLUS_EQUALS", Identifier("x"),
                     Literal("NUMBER", <<"1", ".", "5">>))}
    \cup {[kind |-> "Binary", op |-> op, left |-> One, right |-> right] :
            op \in {"PLUS", "LESS", "AMPERSAND_AMPERSAND", "AMPERSAND",
                    "QUESTION"},
            right \in {One, True}}
    \cup {[kind |-> "Unary", op |-> op, operand |-> operand] :
            op \in {"MINUS", "EXCLAIM", "TILDE", "PLUS_PLUS", "QUESTION"},
            operand \in {One, True}}

\* int, char, A, int[], int[true], int@unsafe, int@, function types, int | bool,
\* #shared<int>, A<int>, int<> and int&
AstTypes ==
  {IntType, PrimitiveType("CHAR"), NamedType("A"),
   [kind |-> "ArrayType", elementType |-> IntType, size |-> Null],
   [kind |-> "ArrayType", elementType |-> IntType, size |-> True],
   [kind |-> "PointerType", baseType |-> IntType, pointerKind |-> "Unsafe"],
   [kind |-> "PointerType", baseType |-> IntType, pointerKind |-> "Raw"],
   [kind |-> "FunctionType", returnType |-> IntType,
    parameterTypes |-> <<PrimitiveType("BOOLEAN"), NamedType("B")>>],
   [kind |-> "UnionType", left |-> IntType, right |-> PrimitiveType("BOOLEAN")],
   [kind |-> "SmartPointerType", pointeeType |-> IntType,
    smartKind |-> "Shared"],
   [kind |-> "TemplateType", baseType |-> NamedType("A"),
    arguments |-> <<IntType>>],
   [kind |-> "TemplateType", baseType |-> IntType, arguments |-> <<>>],
   [kind |-> "ReferenceType", baseType |-> IntType]}

\* let x: T ,  let x: T = 1  and  let x: T = true
AstTypedVarDecls ==
  {[kind |-> "VarDecl", name |-> "x", type |-> type, initializer |-> e] :
     type \in AstTypes, e \in {Null, One, True}}

\* if, while, for and switch statements with conditions of type bool and
\* int, a break statement, and enum and interface declarations
AstMoreStatements ==
  {IfStmt(condition, [kind |-> "ExpressionStmt", expression |-> One],
          elseBranch) :
     condition \in {One, True},
     elseBranch \in {Null, [kind |-> "ExpressionStmt",
                            expression |-> Identifier("x")]}}
    \cup {WhileStmt(condition,
                    [kind |-> "ExpressionStmt", expression |-> One]) :
            condition \in {One, True}}
    \cup {ForStmt(init, condition, increment,
                  [kind |-> "ExpressionStmt", expression |-> Identifier("x")]) :
            init \in {Null, [kind |-> "DeclarationStmt",
                             declaration |->
                               [kind |-> "VarDecl", name |-> "x",
                                type |-> Null, initializer |-> True]]},
            condition \in {Null, One, Identifier("x")},
            increment \in {Null, Identifier("x")}}
    \cup {SwitchStmt(One, <<SwitchCase(FALSE, value, <<>>),
                            SwitchCase(TRUE, Null,
                                       <<[kind |-> "ExpressionStmt",
                                          expression |-> One]>>)>>) :
            value \in {One, True}}
    \cup {[kind |-> "BreakStmt"]}
    \cup {[kind |-> "DeclarationStmt", declaration |-> d] :
            d \in {[kind |-> "EnumDecl", name |-> "B"],
                   [kind |-> "InterfaceDecl", name |-> "B"],
                   [kind |-> "FieldDecl", name |-> "x"]}}

\* f(), f(true) and f(1)
AstCalls ==
  {Call(Identifier("f"), arguments) :
     arguments \in {<<>>, <<Literal("TRUE", <<>>)>>,
                    <<Literal("NUMBER", <<"1">>)>>}}

AstExpressions ==
  {Literal("NUMBER", <<"1">>), Literal("NUMBER", <<"1", ".", "5">>),
   Literal("TRUE", <<>>), Literal("CHAR_LITERAL", <<"c">>)}
    \cup AstCalls

AstVarDecls ==
  {[kind |-> "VarDecl", name |-> "x", type |-> Null, initializer |-> e] :
     e \in AstExpressions \cup {Null}}

AstSimpleStatements ==
  {[kind |-> "ExpressionStmt", expression |-> e] : e \in AstExpressions}
    \cup {[kind |-> "DeclarationStmt", declaration |-> d] :
            d \in AstVarDecls \cup {[kind |-> "ClassDecl", name |-> "A"]}}

AstBlocks ==
  {[kind |-> "Block", statements |-> s] :
     s \in SeqsUpTo(AstSimpleStatements, MaxBodyLen)}

\* function f(..) { .. } without parameters, with a parameter of type bool
\* or of the class type A, with and without the return type int
AstFuncDecls ==
  {[kind |-> "FunctionDecl", name |-> "f", parameters |-> parameters,
    returnType |-> returnType, body |-> b] :
     parameters \in {<<>>, <<Parameter("x", PrimitiveType("BOOLEAN"))>>,
                     <<Parameter("x", NamedType("A"))>>},
     returnType \in {Null, PrimitiveType("INT")},
     b \in AstBlocks}

AstTopLevel ==
  AstVarDecls
    \cup AstTypedVarDecls
    \cup {[kind |-> "ExpressionStmt", expression |-> e] :
            e \in AstExpressions \cup AstMoreExpressions}
    \cup AstBlocks
    \cup AstMoreStatements
    \cup AstFuncDecls
    \cup {[kind |-> "ClassDecl", name |-> "A"],
           [kind |-> "EnumDecl", name |-> "B"],
           [kind |-> "InterfaceDecl", name |-> "B"]}

ChkFrame == UNCHANGED <<tsVars, lexVars, parser, pipVars, repVars, expVars>>

TypeCheckInit ==
  /\ \E nodes \in SeqsUpTo(AstTopLevel, MaxAstLen) :
       checker = CheckerCtor(nodes)
  /\ diagnostics = <<>>
  /\ parser = ParserCtor("h")
  /\ TSIdle
  /\ LexIdle
  /\ PipIdle
  /\ RepIdle
  /\ ExpIdle

\* the visitor as the visit functions see it, where onNull is what the
\* reads through a null currentFunctionReturnType_ do, one after the other
Visitor(onNull) ==
  [scopes |-> checker.scopes, currentScope_ |-> checker.currentScope_,
   diags |-> diagnostics, type |-> Null, lookups |-> checker.lookups,
   currentFunctionReturnType_ |-> checker.currentFunctionReturnType_,
   returnChecks |-> checker.returnChecks, derefNull |-> checker.derefNull,
   crashed |-> FALSE, onNull |-> onNull]

\* the first loop of checkAST()
CheckASTCollect ==
  /\ ~checker.collected
  /\ checker' = [checker EXCEPT
                   !.collected = TRUE,
                   !.scopes = collectTypes(Visitor(<<>>), checker.nodes,
                                           1).scopes]
  /\ UNCHANGED diagnostics
  /\ ChkFrame

\* one iteration of the second loop of checkAST()
CheckASTIter ==
  /\ checker.collected
  /\ ~checker.done
  /\ ~checker.crashed
  /\ checker.next <= Len(checker.nodes)
  /\ \E onNull \in NullDereferenceRuns :
       LET visited == checkNode(Visitor(onNull), checker.nodes[checker.next])
       IN /\ checker' = [checker EXCEPT
                           !.next = IF visited.crashed THEN @ ELSE @ + 1,
                           !.success = IF visited.crashed THEN @
                                       ELSE @ /\ visited.type.kind # "Error",
                           !.scopes = visited.scopes,
                           !.currentScope_ = visited.currentScope_,
                           !.lookups = visited.lookups,
                           !.currentFunctionReturnType_ =
                             visited.currentFunctionReturnType_,
                           !.returnChecks = visited.returnChecks,
                           !.derefNull = visited.derefNull,
                           !.crashed = visited.crashed]
          /\ diagnostics' = visited.diags
  /\ ChkFrame

\* return success;
CheckASTReturn ==
  /\ checker.collected
  /\ ~checker.done
  /\ checker.next > Len(checker.nodes)
  /\ checker' = [checker EXCEPT !.done = TRUE, !.result = checker.success]
  /\ UNCHANGED diagnostics
  /\ ChkFrame

TypeCheckNext ==
  \/ CheckASTCollect
  \/ CheckASTIter
  \/ CheckASTReturn

TypeCheckSpec == TypeCheckInit /\ [][TypeCheckNext]_vars

(***************************************************************************)
(* Specification of the pipeline: processCode() of main.cpp on a source    *)
(* of one to MaxStatements statements, each of them written with or        *)
(* without semicolon, on one line or on lines of their own.                *)
(***************************************************************************)
\* the statements of the sources, as their characters
LetX ==
  <<"l", "e", "t", " ", "x", " ", "=", " ", "1", "0">>

LetY ==
  <<"l", "e", "t", " ", "y", " ", "=", " ", "2", "0">>

LetTyped ==
  <<"l", "e", "t", " ", "x", ":", " ", "i", "n", "t", " ", "=", " ", "1",
    "0">>

ConstBare ==
  <<"c", "o", "n", "s", "t", " ", "y", ":", " ", "i", "n", "t">>

AssignX ==
  <<"x", " ", "=", " ", "1">>

PipelineStatements == {LetX, LetY, LetTyped, ConstBare, AssignX}

\* what stands between two statements, and behind the last one
PipelineSeparators == {<<"\n">>, <<";", "\n">>, <<";">>, <<" ">>}

PipelineTerminators == {<<>>, <<";">>}

\* n statements with a separator behind each but the last
RECURSIVE StatementsJoined(_)
StatementsJoined(n) ==
  IF n = 1 THEN PipelineStatements
  ELSE {s \o sep \o rest : s \in PipelineStatements,
                           sep \in PipelineSeparators,
                           rest \in StatementsJoined(n - 1)}

PipelineSources ==
  {s \o term : s \in UNION {StatementsJoined(n) : n \in 1..MaxStatements},
               term \in PipelineTerminators}

\* Lexer::tokenize from the state L on: whether the call returns, and the
\* lexer behind it.  A loop that has emitted LexTokenCap tokens has stopped
\* consuming the source: the call never returns, no END_OF_FILE token is
\* appended, and lexer is the state the loop keeps repeating from.
RECURSIVE tokenize(_)
tokenize(L) ==
  IF Lexer_isAtEnd(L) THEN [returns |-> TRUE, lexer |-> tokenizeEnd(L)]
  ELSE IF Len(L.tokens_) >= LexTokenCap(L.source_)
    THEN [returns |-> FALSE, lexer |-> L]
  ELSE tokenize(tokenizeStep(L))

\* processCode of main.cpp: whether it returns, the tokens, the lexer's
\* error count and what the parser made of the tokens; it does not return
\* when tokenize() does not
processCode(sourceCode) ==
  With([lexed \in {tokenize(LexerCtor(sourceCode))} |->
    IF ~lexed.returns
      THEN [returns |-> FALSE, tokens |-> <<>>, lexerErrors |-> 0,
            parser |-> PipelineCtor]
      ELSE [returns |-> TRUE, tokens |-> lexed.lexer.tokens_,
            lexerErrors |-> lexed.lexer.errorCount,
            parser |-> IF lexed.lexer.errorCount > 0
                         THEN [PipelineCtor EXCEPT !.stage = "done"]
                         ELSE Parser_parse(PipelineCtor,
                                           lexed.lexer.tokens_)]])

PipFrame == UNCHANGED <<tsVars, parVars, chkVars, repVars, expVars>>

PipelineInit ==
  /\ \E src \in PipelineSources : lexer = LexerCtor(src)
  /\ lexDone = FALSE
  /\ pipeline = PipelineCtor
  /\ RepIdle
  /\ ExpIdle
  /\ TSIdle
  /\ ParIdle

\* if (!errorReporter.getErrors().empty()) { ...; return; }
ProcessCodeLexerErrors ==
  /\ lexDone
  /\ pipeline.stage = "lex"
  /\ lexer.errorCount > 0
  /\ pipeline' = [pipeline EXCEPT !.stage = "done"]
  /\ UNCHANGED lexVars
  /\ PipFrame

\* one iteration of the loop of Parser::parse
ParserParseIter ==
  /\ lexDone
  /\ lexer.errorCount = 0
  /\ pipeline.stage \in {"lex", "parse"}
  /\ ~Parser_isAtEnd(lexer.tokens_, pipeline.current_)
  /\ pipeline' = Parser_parseStep([pipeline EXCEPT !.stage = "parse"],
                                  lexer.tokens_)
  /\ UNCHANGED lexVars
  /\ PipFrame

\* return statements;
ParserParseReturn ==
  /\ lexDone
  /\ lexer.errorCount = 0
  /\ pipeline.stage \in {"lex", "parse"}
  /\ Parser_isAtEnd(lexer.tokens_, pipeline.current_)
  /\ pipeline' = [pipeline EXCEPT !.stage = "done", !.parsed = TRUE]
  /\ UNCHANGED lexVars
  /\ PipFrame

PipelineNext ==
  \/ WithinTokenCap /\ TokenizeIter
  \/ TokenizeReturn
  \/ ProcessCodeLexerErrors
  \/ ParserParseIter
  \/ ParserParseReturn

PipelineSpec == PipelineInit /\ [][PipelineNext]_vars

(***************************************************************************)
(* Specification of the diagnostic reporter: any sequence of up to         *)
(* MaxCalls calls of error, warning, info and clear.                       *)
(***************************************************************************)
\* SourceLocation(), the location of tokens the streams synthesise, and
\* SourceLocation(file, 1, 1) and SourceLocation(file, 1, 2) on a file whose
\* first line was loaded: the columns of the lexer's locations start at 1
ReportLocations ==
  {[line |-> 0, column |-> 0, line_content |-> FALSE],
   [line |-> 1, column |-> 1, line_content |-> TRUE],
   [line |-> 1, column |-> 2, line_content |-> TRUE]}

ReportCodes == {"", "E001"}

RepFrame ==
  UNCHANGED <<tsVars, lexVars, parVars, chkVars, pipVars, expVars>>

ReporterInit ==
  /\ reporter = ErrorReporterCtor
  /\ reportCalls = <<>>
  /\ TSIdle
  /\ LexIdle
  /\ PipIdle
  /\ ParIdle
  /\ ExpIdle

CallError ==
  /\ Len(reportCalls) < MaxCalls
  /\ \E location \in ReportLocations, code \in ReportCodes :
       reporter' = ErrorReporter_error(reporter, location, "message", code)
  /\ reportCalls' = Append(reportCalls, "error")
  /\ RepFrame

CallWarning ==
  /\ Len(reportCalls) < MaxCalls
  /\ \E location \in ReportLocations, code \in ReportCodes :
       reporter' = ErrorReporter_warning(reporter, location, "message", code)
  /\ reportCalls' = Append(reportCalls, "warning")
  /\ RepFrame

CallInfo ==
  /\ Len(reportCalls) < MaxCalls
  /\ \E location \in ReportLocations, code \in ReportCodes :
       reporter' = ErrorReporter_info(reporter, location, "message", code)
  /\ reportCalls' = Append(reportCalls, "info")
  /\ RepFrame

CallClear ==
  /\ Len(reportCalls) < MaxCalls
  /\ reporter' = ErrorReporter_clear(reporter)
  /\ reportCalls' = Append(reportCalls, "clear")
  /\ RepFrame

ReporterNext ==
  \/ CallError
  \/ CallWarning
  \/ CallInfo
  \/ CallClear

ReporterSpec == ReporterInit /\ [][ReporterNext]_vars

(***************************************************************************)
(* Claims about the cursor                                                 *)
(***************************************************************************)
\* the kinds the specification lists for TokenStream::synchronize
ClaimedSyncKinds ==
  {"FUNCTION", "LET", "CONST", "CLASS", "IF", "WHILE", "FOR", "RETURN"}

\* the first position at or after the forced advance where the previous
\* token is a SEMICOLON, the next token is a listed kind, or the stream ends
ClaimedSyncPos(toks, cur) ==
  LET start == advance(toks, cur)
      Stop(p) == \/ isAtEnd(toks, p)
                 \/ previous(toks, p) = "SEMICOLON"
                 \/ peek(toks, p) \in ClaimedSyncKinds
  IN CHOOSE p \in start..(Len(toks) - 1) :
       Stop(p) /\ \A q \in start..(p - 1) : ~Stop(q)

\* C7: synchronize() advances past the current token and stops at the first
\* position where the previous token is SEMICOLON or the next token is one
\* of function, let, const, class, if, while, for, return (or at the end).
C7_SyncStopsAtListedKinds ==
  lastCall.op = "synchronize" =>
    current_ = ClaimedSyncPos(tokens_, lastCall.before)

\* C8 as stated: for every kind k, END_OF_FILE included, match(k) advances
\* by one and returns true iff the current token has kind k.
C8_MatchEveryKind ==
  lastCall.op = "match" =>
    IF tokens_[lastCall.before + 1] = lastCall.arg[1]
      THEN ret = TRUE /\ current_ = lastCall.before + 1
      ELSE ret = FALSE /\ current_ = lastCall.before

\* C8 amended: for every kind k other than END_OF_FILE, match(k) advances
\* the cursor by exactly one and returns true if the current token has kind
\* k, and otherwise returns false and leaves the cursor unchanged;
\* match(END_OF_FILE) returns false and leaves the cursor unchanged; check
\* never changes the cursor.
C8_MatchAdvancesIffKind ==
  /\ (lastCall.op = "match" /\ lastCall.arg[1] # "END_OF_FILE") =>
       IF tokens_[lastCall.before + 1] = lastCall.arg[1]
         THEN ret = TRUE /\ current_ = lastCall.before + 1
         ELSE ret = FALSE /\ current_ = lastCall.before
  /\ (lastCall.op = "match" /\ lastCall.arg[1] = "END_OF_FILE") =>
       ret = FALSE /\ current_ = lastCall.before
  /\ lastCall.op = "check" => current_ = lastCall.before

\* a match that succeeded away from the start, and one that failed
C8_Witness ==
  /\ lastCall.op = "match"
  /\ ret = TRUE
  /\ lastCall.before >= 1
  /\ current_ = lastCall.before + 1

\* C9: after any sequence of cursor operations the cursor stays inside the
\* token vector, peek() is END_OF_FILE whenever no real token remains, and
\* previous() is the first token as long as the cursor has not advanced.
C9_CursorInBounds ==
  /\ current_ \in 0..(Len(tokens_) - 1)
  /\ (\A i \in (current_ + 1)..Len(tokens_) : tokens_[i] = "END_OF_FILE")
       => peek(tokens_, current_) = "END_OF_FILE"
  /\ ~everMoved => previous(tokens_, current_) = tokens_[1]

\* set_position was called with an argument beyond the vector and the
\* cursor sits on the END_OF_FILE token of a stream with real tokens
C9_Witness ==
  /\ lastCall.op = "setPosition"
  /\ lastCall.pos >= Len(tokens_)
  /\ Len(tokens_) >= 3
  /\ current_ = Len(tokens_) - 1
  /\ peek(tokens_, current_) = "END_OF_FILE"

(***************************************************************************)
(* Claims about the lexer                                                  *)
(***************************************************************************)
\* C2: for every source, tokenize() terminates and returns a token vector
\* whose last element is END_OF_FILE.
C2_TokenizeTerminates ==
  <>(lexDone /\ Last(lexer.tokens_).type = "END_OF_FILE")

\* A pass of the loop reads of the logs only what forget() keeps: the pass
\* on the lexer with its logs forgotten ends, but for the logs, where the
\* pass on the lexer itself ends.
PassReadsWhatForgetKeeps ==
  (~lexDone /\ ~Lexer_isAtEnd(lexer)) =>
    forget(tokenizeStep(forget(lexer))) = forget(tokenizeStep(lexer))

\* every pass of the loop consumes a character of the source
EveryPassConsumes ==
  [][TokenizeIter => lexer'.position_ > lexer.position_]_vars

\* the pass on a string with an invalid escape: an ERROR token is added
\* and position_ stays where it is
EscapePassConsumesNothing ==
  /\ ~lexDone
  /\ ~Lexer_isAtEnd(lexer)
  /\ lexer.tokens_ # <<>>
  /\ Last(lexer.tokens_).errorMessage = <<"Invalid escape sequence">>
  /\ tokenizeStep(lexer).position_ = lexer.position_

\* The cap on the token vector only ever stops a run that is caught in the
\* loop: where it applies, one more pass leaves every member but tokens_
\* and the error count as it is, so every later pass does the same.
CapOnlyStopsLoopingRuns ==
  (~lexDone /\ ~Lexer_isAtEnd(lexer)
     /\ Len(lexer.tokens_) >= LexTokenCap(lexer.source_)) =>
    LET L == tokenizeStep(lexer)
    IN [L EXCEPT !.tokens_ = <<>>, !.errorCount = 0]
         = [lexer EXCEPT !.tokens_ = <<>>, !.errorCount = 0]

\* the kinds after which an expression still needs an operand
ExpectsOperand ==
  {"PLUS", "MINUS", "MULTIPLY", "DIVIDE", "MODULO", "ASSIGN", "EQUALS"}

\* the kinds an operand starts with
StartsOperand == {"IDENTIFIER", "NUMBER_LITERAL", "STRING_LITERAL"}

\* the first character at or after position p that is not white space,
\* "" for the end of input
RECURSIVE nextNonWhitespace(_, _)
nextNonWhitespace(src, p) ==
  IF p >= Len(src) THEN ""
  ELSE IF src[p + 1] \in {" ", "\t", "\r"} THEN nextNonWhitespace(src, p + 1)
  ELSE src[p + 1]

\* C10: a synthetic SEMICOLON is inserted only at a newline, only when a
\* token has been emitted before, the last emitted token is not SEMICOLON
\* and the next non-whitespace character after the newline is a newline,
\* '}', ';' or the end of input; and never in the middle of an expression,
\* between an operator and the operand it waits for.
C10_AsiOnlyWhereSafe ==
  \A i \in 1..Len(lexer.inserted) :
    LET e == lexer.inserted[i]
        toks == lexer.tokens_
    IN /\ lexer.source_[e.pos + 1] = "\n"
       /\ toks[e.index].type = "SEMICOLON"
       /\ e.index > 1
       /\ toks[e.index - 1].type # "SEMICOLON"
       /\ nextNonWhitespace(lexer.source_, e.pos + 1) \in {"\n", "}", ";", ""}
       /\ ~(/\ toks[e.index - 1].type \in ExpectsOperand
            /\ e.index < Len(toks)
            /\ toks[e.index + 1].type \in StartsOperand)

\* the conditions (a), (b), (c) of C10 alone
AsiConditions ==
  \A i \in 1..Len(lexer.inserted) :
    LET e == lexer.inserted[i]
        toks == lexer.tokens_
    IN /\ lexer.source_[e.pos + 1] = "\n"
       /\ toks[e.index].type = "SEMICOLON"
       /\ e.index > 1
       /\ toks[e.index - 1].type # "SEMICOLON"
       /\ nextNonWhitespace(lexer.source_, e.pos + 1) \in {"\n", "}", ";", ""}


(***************************************************************************)
(* Claims about the parser                                                 *)
(***************************************************************************)
\* an iteration of one of the three loops has just run
IterationRan == parser.step.loop # "none"

\* C1: every iteration of the orchestrator loop and of every nested block
\* or class-body loop consumes at least one token
C1_EveryIterationConsumes == IterationRan => current_ > parser.step.from

\* the part of C1 that the loops of statement_parse_visitor.h keep: with
\* synchronize() in the block loop every iteration consumes a token
IterationsConsumeWithBlockRecovery ==
  (parser.impl = "h" /\ IterationRan) => current_ > parser.step.from

\* only a block loop that does not move stops at the diagnostics cap
DiagCapOnlyStopsLoopingRuns ==
  Len(diagnostics) >= ParseDiagCap(tokens_) =>
    /\ parser.impl = "cpp"
    /\ parser.step.loop = "parseBlock"
    /\ current_ = parser.step.from

\* C3: parse() returns ok exactly if no Error diagnostic was emitted,
\* already with the StatementParseVisitor of statement_parse_visitor.h
C3_OkIffNoError ==
  (parser.impl = "h" /\ parser.done) =>
    (parser.result = (diagnostics = <<>>))

\* C5: an iteration of the top-level loop produces one node, or reports at
\* least one diagnostic and calls synchronize()
C5_NodeOrDiagnostic ==
  (parser.impl = "h" /\ parser.lastIter.complete) =>
    \/ parser.lastIter.produced
    \/ parser.lastIter.reported >= 1 /\ parser.lastIter.synchronized

\* C6: the parse runs to the end of the token stream: when it returns,
\* the cursor is on END_OF_FILE, whatever failed on the way
C6_RunsToEndOfStream == parser.done => isAtEnd(tokens_, current_)


(***************************************************************************)
(* Claims about the type checker                                           *)
(***************************************************************************)
\* C4: checkAST() returns failure exactly if an Error diagnostic was
\* reported while checking, at any nesting depth
C4_FailureIffErrorReported ==
  checker.done => (~checker.result <=> diagnostics # <<>>)

\* the direction of C4 that checkAST() keeps: it does not fail without a
\* diagnostic
FailureOnlyAfterError ==
  (checker.done /\ ~checker.result) => diagnostics # <<>>

(***************************************************************************)
(* Claims about the pipeline                                               *)
(***************************************************************************)
\* the two lines  let x = 10  and  let y = 20 , and the same with semicolons
AsiSource == LetX \o <<"\n">> \o LetY

ExplicitSource == LetX \o <<";", "\n">> \o LetY \o <<";">>

\* C11: for the source of the two lines  let x = 10  and  let y = 20
\* (no semicolons) the pipeline produces two VarDecl nodes and no
\* diagnostics, and the result is the one of the same source written with
\* explicit semicolons.
C11_AsiTwoVarDecls ==
  (pipeline.stage = "done" /\ lexer.source_ = AsiSource) =>
    /\ pipeline.parsed
    /\ Len(pipeline.statements) = 2
    /\ \A i \in DOMAIN pipeline.statements :
         pipeline.statements[i].kind = "VarDeclaration"
    /\ lexer.errorCount = 0
    /\ pipeline.errors = <<>>
    /\ pipeline.statements = processCode(ExplicitSource).parser.statements
    /\ pipeline.errors = processCode(ExplicitSource).parser.errors

\* What the pipeline does give for the two sources: the same statements
\* and no diagnostics.
AsiSameAsExplicit ==
  (pipeline.stage = "done" /\ lexer.source_ = AsiSource) =>
    /\ lexer.errorCount = 0
    /\ pipeline.errors = <<>>
    /\ pipeline.statements = processCode(ExplicitSource).parser.statements

\* Spelled with its type annotation, a declaration on a line of its own is
\* a VarDeclaration node without any semicolon.
TypedLinesAreVarDecls ==
  (pipeline.stage = "done"
     /\ lexer.source_ = LetTyped \o <<"\n">> \o LetTyped) =>
    /\ Len(pipeline.statements) = 2
    /\ \A i \in DOMAIN pipeline.statements :
         pipeline.statements[i].kind = "VarDeclaration"
    /\ pipeline.errors = <<>>

(***************************************************************************)
(* Claims about the lexer's treatment of lines                             *)
(***************************************************************************)
\* the characters that stand between two statements
GapChars == {" ", "\t", "\n", ";"}

\* is the character at (1-based) index i between two statements: in a run
\* of GapChars with statement text before it and behind it?
betweenStatements(src, i) ==
  /\ src[i] \in GapChars
  /\ \E j \in 1..(i - 1) : src[j] \notin GapChars
  /\ \E k \in (i + 1)..Len(src) : src[k] \notin GapChars

\* the run of GapChars around index i holds the character c before index n
gapHolds(src, i, c, n) ==
  \E m \in 1..(n - 1) :
    /\ src[m] = c
    /\ \A k \in (IF m < i THEN m ELSE i)..(IF m < i THEN i ELSE m) :
         src[k] \in GapChars

\* every line break between two statements comes with an explicit semicolon
SeparatedBySemicolons(src) ==
  \A i \in DOMAIN src :
    (src[i] = "\n" /\ betweenStatements(src, i)) =>
      gapHolds(src, i, ";", Len(src) + 1)

\* ... and the semicolon stands before the line break
SemicolonsEndLines(src) ==
  \A i \in DOMAIN src :
    (src[i] = "\n" /\ betweenStatements(src, i)) => gapHolds(src, i, ";", i)

\* the source without the newlines between its statements
RECURSIVE withoutNewlines(_, _)
withoutNewlines(src, i) ==
  IF i > Len(src) THEN <<>>
  ELSE (IF src[i] = "\n" /\ betweenStatements(src, i) THEN <<>>
        ELSE <<src[i]>>) \o withoutNewlines(src, i + 1)

\* a token vector up to location metadata
KindsAndLexemes(toks) ==
  [i \in DOMAIN toks |-> <<toks[i].type, toks[i].lexeme>>]

\* tokenize() gives the same on the source and on the source without the
\* newlines between its statements
SameWithoutNewlines(src) ==
  KindsAndLexemes(lexer.tokens_) =
    KindsAndLexemes(
      tokenize(LexerCtor(withoutNewlines(src, 1))).lexer.tokens_)

\* C12: for every source whose consecutive statements are separated by
\* explicit semicolons, the lexer's tokens (kinds and lexemes) are the same
\* with and without newlines between the statements.
C12_NewlinesChangeNoTokens ==
  (/\ lexDone
   /\ \A i \in DOMAIN lexer.source_ : lexer.source_[i] \in LineAlphabet
   /\ SeparatedBySemicolons(lexer.source_)) =>
    SameWithoutNewlines(lexer.source_)

\* The tokens are the same when every such line break stands behind the
\* semicolon of the statement it ends.
NewlinesAfterSemicolonsChangeNoTokens ==
  (/\ lexDone
   /\ \A i \in DOMAIN lexer.source_ : lexer.source_[i] \in LineAlphabet
   /\ SemicolonsEndLines(lexer.source_)) =>
    SameWithoutNewlines(lexer.source_)

(***************************************************************************)
(* Claims about the lexer's error recovery                                 *)
(***************************************************************************)
MultipleStatementsMessage ==
  <<"Multiple statements on one line require explicit semicolons">>

\* the kind scanToken() finds for the word at the position of L, "none"
\* when there is no identifier or keyword
wordAhead(L) ==
  LET n == identifierPattern(L.source_, L.position_)
      kw == find(keywords,
                 SubSeq(L.source_, L.position_ + 1, L.position_ + n))
  IN IF n = 0 THEN "none" ELSE IF kw # "none" THEN kw ELSE "IDENTIFIER"

\* the next pass of tokenize() scans a statement-starting keyword that
\* stands on the line of an earlier one, with no semicolon emitted since
\* (L is the lexer behind the whitespace before the keyword)
SecondStarterAhead(L) ==
  /\ ~Lexer_isAtEnd(L)
  /\ isStatementStart(wordAhead(L))
  /\ \E i \in DOMAIN L.tokens_ :
       /\ isStatementStart(L.tokens_[i].type)
       /\ L.tokens_[i].line = L.line_
       /\ \A j \in (i + 1)..Len(L.tokens_) :
            L.tokens_[j].type # "SEMICOLON"

\* the position of the first character of the line after the one that
\* holds position p; the end of the source when there is no such line
RECURSIVE nextLineStart(_, _)
nextLineStart(src, p) ==
  IF p >= Len(src) THEN Len(src)
  ELSE IF src[p + 1] = "\n" THEN p + 1
  ELSE nextLineStart(src, p + 1)

\* the pass appends one ERROR token with the message to the tokens of L
OneErrorToken(L, message) ==
  /\ Len(lexer'.tokens_) = Len(L.tokens_) + 1
  /\ SubSeq(lexer'.tokens_, 1, Len(L.tokens_)) = L.tokens_
  /\ Last(lexer'.tokens_).type = "ERROR_TOKEN"
  /\ Last(lexer'.tokens_).errorMessage = message

\* where the lexer goes on, the end of the source at most
resumesAt(L) ==
  IF L.position_ > Len(L.source_) THEN Len(L.source_) ELSE L.position_

\* C13: a second statement-starting keyword on the line of an earlier one,
\* with no explicit semicolon in between, gives exactly one ERROR token
\* with the message "Multiple statements on one line require explicit
\* semicolons"; the rest of the line is discarded and lexing resumes at the
\* first character of the next line.
C13_MultiStatementRecovery ==
  [][(TokenizeIter /\ lexer.errorCount = 0
        /\ SecondStarterAhead(skipWhitespace(lexer))) =>
       /\ OneErrorToken(skipWhitespace(lexer), MultipleStatementsMessage)
       /\ resumesAt(lexer') =
            nextLineStart(lexer.source_, skipWhitespace(lexer).position_)]_vars

\* What the pass does: one ERROR token with the message, and lexing goes on
\* as many characters as the keyword has behind the place where
\* synchronize() stopped, which is behind the next ';' or newline.
MultiStatementRecoveryOvershoots ==
  [][(TokenizeIter /\ lexer.errorCount = 0
        /\ SecondStarterAhead(skipWhitespace(lexer))) =>
       /\ OneErrorToken(skipWhitespace(lexer), MultipleStatementsMessage)
       /\ lexer'.position_ =
            Lexer_synchronize(skipWhitespace(lexer)).position_
              + identifierPattern(lexer.source_,
                                  skipWhitespace(lexer).position_)]_vars

\* the character at the position of L starts no token: no pattern of
\* scanToken() matches there and it is no single-character token
startsNoToken(L) ==
  /\ ~Lexer_isAtEnd(L)
  /\ stringPattern(L.source_, L.position_) = 0
  /\ numberPattern(L.source_, L.position_) = 0
  /\ identifierPattern(L.source_, L.position_) = 0
  /\ operatorPattern(L.source_, L.position_) = 0
  /\ find(SingleCharTokens, <<L.source_[L.position_ + 1]>>) = "none"

UnexpectedCharacterMessage(L) ==
  <<"Unexpected character: '", L.source_[L.position_ + 1], "'">>

\* the position of the first ';' or newline from position p on, the end of
\* the source when there is none
RECURSIVE panicStop(_, _)
panicStop(src, p) ==
  IF p >= Len(src) THEN Len(src)
  ELSE IF src[p + 1] \in {";", "\n"} THEN p
  ELSE panicStop(src, p + 1)

\* C14: a character that starts no token produces exactly one ERROR token
\* with the message "Unexpected character: '<c>'", and the lexer skips the
\* input up to the next semicolon, newline or end of input before it emits
\* any further token.
C14_UnexpectedCharacterPanics ==
  [][(TokenizeIter /\ startsNoToken(skipWhitespace(lexer))) =>
       /\ OneErrorToken(skipWhitespace(lexer),
                        UnexpectedCharacterMessage(skipWhitespace(lexer)))
       /\ lexer'.position_ >=
            panicStop(lexer.source_,
                      skipWhitespace(lexer).position_ + 1)]_vars

\* What the pass does: one ERROR token with the message, and nothing but
\* the character itself is skipped.
UnexpectedCharacterOnlySkipsItself ==
  [][(TokenizeIter /\ startsNoToken(skipWhitespace(lexer))) =>
       /\ OneErrorToken(skipWhitespace(lexer),
                        UnexpectedCharacterMessage(skipWhitespace(lexer)))
       /\ lexer'.position_ = skipWhitespace(lexer).position_ + 1]_vars

(***************************************************************************)
(* Claims about token locations                                            *)
(***************************************************************************)
\* is token i of the lexer L a semicolon that skipWhitespace() inserted?
isSynthetic(L, i) == \E k \in DOMAIN L.inserted : L.inserted[k].index = i

\* (a.line, a.column) <= (b.line, b.column), lexicographically
locationLE(a, b) ==
  a.line < b.line \/ (a.line = b.line /\ a.column <= b.column)

\* tokens i < j are consecutive among the tokens that are not synthetic
consecutiveScanned(L, i, j) ==
  /\ i < j
  /\ ~isSynthetic(L, i)
  /\ ~isSynthetic(L, j)
  /\ \A k \in (i + 1)..(j - 1) : isSynthetic(L, k)

\* C15: in the token vector tokenize() returns, the (line, column) of a
\* non-synthetic token is lexicographically less than or equal to that of
\* the next non-synthetic token, whatever the source holds: comments,
\* strings over several lines, errors and the recovery from them.
C15_LocationsMonotonic ==
  lexDone =>
    \A i, j \in DOMAIN lexer.tokens_ :
      consecutiveScanned(lexer, i, j) =>
        locationLE(lexer.tokens_[i], lexer.tokens_[j])

\* tokenize() has returned tokens of two lines, from a source that made it
\* report an error and insert a semicolon between two scanned tokens
C15_Witness ==
  /\ lexDone
  /\ lexer.errorCount > 0
  /\ \E i, j \in DOMAIN lexer.tokens_ :
       /\ consecutiveScanned(lexer, i, j)
       /\ j > i + 1
       /\ lexer.tokens_[i].line < lexer.tokens_[j].line
       /\ lexer.tokens_[j].type # "END_OF_FILE"

(***************************************************************************)
(* Claims about the diagnostic reporter                                    *)
(***************************************************************************)
\* the number of error() calls behind the last clear() of a call sequence
RECURSIVE errorsSinceClear(_)
errorsSinceClear(calls) ==
  IF calls = <<>> \/ Last(calls) = "clear" THEN 0
  ELSE (IF Last(calls) = "error" THEN 1 ELSE 0)
         + errorsSinceClear(SubSeq(calls, 1, Len(calls) - 1))

\* C16: after any sequence of error, warning, info and clear calls,
\* error_count() is the number of Error diagnostics reported since the last
\* clear(), has_errors() is true iff that number is not zero, and warnings
\* and infos never change the count.
C16_ErrorCountCountsErrors ==
  /\ errorCount(reporter) = errorsSinceClear(reportCalls)
  /\ hasErrors(reporter) <=> errorsSinceClear(reportCalls) > 0
  /\ errorCount(reporter) =
       Cardinality({i \in DOMAIN reporter.diagnostics_ :
                      reporter.diagnostics_[i].severity = "Error"})

\* error, warning and clear have been called, and an error was reported
\* behind the clear: the count restarted at the clear and is 1
C16_Witness ==
  /\ \E i, j, k \in DOMAIN reportCalls :
       /\ i < j
       /\ j < k
       /\ reportCalls[i] = "error"
       /\ reportCalls[j] = "clear"
       /\ reportCalls[k] = "error"
  /\ \E i \in DOMAIN reportCalls : reportCalls[i] = "warning"
  /\ errorCount(reporter) = 1
  /\ hasErrors(reporter)

\* every call but clear() stores its diagnostic: the diagnostics stored are
\* those of the calls behind the last clear()
RECURSIVE callsSinceClear(_)
callsSinceClear(calls) ==
  IF calls = <<>> \/ Last(calls) = "clear" THEN 0
  ELSE 1 + callsSinceClear(SubSeq(calls, 1, Len(calls) - 1))

EveryCallStoresItsDiagnostic ==
  Len(reporter.diagnostics_) = callsSinceClear(reportCalls)

\* no call is left by the exception of report(): the pointer line of a
\* location with a loaded line has a column of 1 or more
NoReportThrows == ~reporter.thrown

\* ---------------------------------------------------------------------------
\* C17: a const variable declaration without an initializer is rejected and
\* yields no node: no statement that Parser::parse produced is a const
\* variable declaration whose initializer is null.
C17_ConstHasInitializer ==
  \A i \in DOMAIN pipeline.statements :
    IF pipeline.statements[i].kind = "VarDeclaration"
      THEN pipeline.statements[i].isConst
             => pipeline.statements[i].initializer # Null
      ELSE TRUE

\* Parser::varDeclaration never reports the diagnostic of the const check: the
\* parser's errors of a source whose statements are declarations without
\* '=' stay free of it
ConstMessage == "Const declarations must have an initializer"

ParserNeverReportsConstMessage ==
  \A i \in DOMAIN pipeline.errors : pipeline.errors[i] # ConstMessage


(***************************************************************************)
(* Specification of the expression parsers: parseExpression() and          *)
(* parseBinary() of the expression/ visitors and Parser::expression() of   *)
(* parser/parser.cpp, each called once on the tokens of an expression: an  *)
(* assignment to each form of target, three operands joined by two         *)
(* operators, or conditionals.                                             *)
(***************************************************************************)
\* the forms of target, in the token kinds of tokens::TokenType
ExprTargets ==
  { <<"IDENTIFIER">>,
    <<"IDENTIFIER", "DOT", "IDENTIFIER">>,
    <<"IDENTIFIER", "LEFT_BRACKET", "NUMBER", "RIGHT_BRACKET">>,
    <<"THIS", "DOT", "IDENTIFIER">>,
    <<"NUMBER">>,
    <<"IDENTIFIER", "LEFT_PAREN", "RIGHT_PAREN">>,
    <<"IDENTIFIER", "PLUS", "NUMBER">>,
    <<"MINUS", "IDENTIFIER">> }

ExprValues == { <<"IDENTIFIER">>, <<"NUMBER">> }

AssignmentInputs ==
  { t \o <<op>> \o v \o <<"END_OF_FILE">> :
      t \in ExprTargets, op \in AssignmentOps, v \in ExprValues }

\* one operator of each level of the precedence table, lowest last
ExprOperators ==
  <<"STAR", "PLUS", "LEFT_SHIFT", "LESS", "EQUALS_EQUALS", "AMPERSAND",
    "CARET", "PIPE", "AMPERSAND_AMPERSAND", "PIPE_PIPE", "EQUALS">>

Range(s) == {s[i] : i \in DOMAIN s}

\* a op b op "c"
TwoOperatorInputs ==
  { <<"IDENTIFIER", op1, "IDENTIFIER", op2, "STRING_LITERAL", "END_OF_FILE">> :
      op1 \in Range(ExprOperators), op2 \in Range(ExprOperators) }

\* a ? b : c ? d : e  and  a ? b ? c : d : e
ConditionalInputs ==
  { <<"IDENTIFIER", "QUESTION", "NUMBER", "COLON", "IDENTIFIER", "QUESTION",
      "NUMBER", "COLON", "STRING_LITERAL", "END_OF_FILE">>,
    <<"IDENTIFIER", "QUESTION", "NUMBER", "COLON", "STRING_LITERAL",
      "END_OF_FILE">>,
    <<"IDENTIFIER", "PIPE_PIPE", "NUMBER", "QUESTION", "NUMBER", "COLON",
      "STRING_LITERAL", "END_OF_FILE">>,
    <<"IDENTIFIER", "EQUALS", "NUMBER", "QUESTION", "NUMBER", "COLON",
      "STRING_LITERAL", "END_OF_FILE">> }

ExprInputs == AssignmentInputs \cup TwoOperatorInputs \cup ConditionalInputs

\* the name lexer::TokenType has for a kind of tokens::TokenType
LexerKind(kind) ==
  CASE kind = "NUMBER" -> "NUMBER_LITERAL"
    [] kind = "EQUALS" -> "ASSIGN"
    [] kind = "PLUS_EQUALS" -> "PLUS_ASSIGN"
    [] kind = "MINUS_EQUALS" -> "MINUS_ASSIGN"
    [] kind = "STAR_EQUALS" -> "MULTIPLY_ASSIGN"
    [] kind = "SLASH_EQUALS" -> "DIVIDE_ASSIGN"
    [] kind = "STAR" -> "MULTIPLY"
    [] kind = "LESS" -> "LESS_THAN"
    [] kind = "EQUALS_EQUALS" -> "EQUALS"
    [] kind = "AMPERSAND" -> "BITWISE_AND"
    [] kind = "CARET" -> "POWER"
    [] kind = "PIPE" -> "BITWISE_OR"
    [] kind = "AMPERSAND_AMPERSAND" -> "AND"
    [] kind = "PIPE_PIPE" -> "OR"
    [] OTHER -> kind

\* the tokens Lexer::tokenize delivers for the kinds: one line, one column
\* each
LexerTokens(kinds) ==
  [i \in DOMAIN kinds |-> Token(LexerKind(kinds[i]), <<>>, 1, i, <<>>)]

\* the kinds lexer::TokenType has no name for
NoLexerKinds == {"THIS", "QUESTION"}

ParserInputs ==
  {toks \in ExprInputs : \A i \in DOMAIN toks : toks[i] \notin NoLexerKinds}

ExpFrame == UNCHANGED <<tsVars, lexVars, parVars, chkVars, pipVars, repVars>>

ExprInit ==
  /\ \/ \E toks \in ExprInputs :
          exprRun = [NoExprRun EXCEPT !.impl = "ExpressionParseVisitor",
                                      !.toks = TokenStreamCtor(toks)]
     \/ \E toks \in ExprInputs :
          exprRun = [NoExprRun EXCEPT !.impl = "BinaryExpressionVisitor",
                                      !.toks = TokenStreamCtor(toks)]
     \/ \E toks \in ParserInputs :
          exprRun = [NoExprRun EXCEPT !.impl = "Parser",
                                      !.toks = LexerTokens(toks)]
  /\ TSIdle
  /\ LexIdle
  /\ ParIdle
  /\ PipIdle
  /\ RepIdle

\* ExpressionParseVisitor::parseExpression on a fresh token stream
CallParseExpression ==
  /\ exprRun.impl = "ExpressionParseVisitor"
  /\ ~exprRun.done
  /\ exprRun' =
       With([r \in {parseExpression(exprRun.toks, 0)} |->
         [exprRun EXCEPT !.done = TRUE, !.node = r.node, !.cur = r.cur,
                         !.diags = r.diags]])
  /\ ExpFrame

\* BinaryExpressionVisitor::parseBinary behind the first operand, for the
\* operators of every precedence
CallParseBinary ==
  /\ exprRun.impl = "BinaryExpressionVisitor"
  /\ ~exprRun.done
  /\ exprRun' =
       With([left \in {parseUnary(exprRun.toks, 0)} |->
         With([r \in {IF left.node = Null THEN left
                ELSE parseBinary(exprRun.toks, left, 0)} |->
           [exprRun EXCEPT !.done = TRUE, !.node = r.node, !.cur = r.cur,
                           !.diags = r.diags]])])
  /\ ExpFrame

\* Parser::expression on a fresh Parser
CallParserExpression ==
  /\ exprRun.impl = "Parser"
  /\ ~exprRun.done
  /\ exprRun' =
       With([r \in {Parser_expression(exprRun.toks, 0)} |->
         [exprRun EXCEPT !.done = TRUE, !.node = r.node, !.cur = r.cur,
                         !.diags = r.errs, !.thrown = r.thrown]])
  /\ ExpFrame

ExprNext ==
  \/ CallParseExpression
  \/ CallParseBinary
  \/ CallParserExpression

ExprSpec == ExprInit /\ [][ExprNext]_vars

\* ---------------------------------------------------------------------------
\* the input of the run: the kinds its tokens were made of
inputOf(run) ==
  CHOOSE toks \in ExprInputs :
    run.toks = IF run.impl = "Parser" THEN LexerTokens(toks)
                                      ELSE TokenStreamCtor(toks)

\* the target of an assignment input
targetOf(toks) ==
  CHOOSE t \in ExprTargets :
    \E op \in AssignmentOps, v \in ExprValues :
      toks = t \o <<op>> \o v \o <<"END_OF_FILE">>

\* Identifier, Member, Index and This-member
LValueTargets ==
  { <<"IDENTIFIER">>,
    <<"IDENTIFIER", "DOT", "IDENTIFIER">>,
    <<"IDENTIFIER", "LEFT_BRACKET", "NUMBER", "RIGHT_BRACKET">>,
    <<"THIS", "DOT", "IDENTIFIER">> }

assignedAll(run) ==
  /\ ~run.thrown
  /\ run.node.kind \in {"Assignment", "CompoundAssignment"}
  /\ run.diags = <<>>
  /\ run.cur = Len(run.toks) - 1

InvalidTargetMessages ==
  {"Invalid assignment target", "Invalid assignment target.",
   "Invalid compound assignment target."}

rejectedTarget(run) ==
  /\ run.node = Null
  /\ \E i \in DOMAIN run.diags : run.diags[i] \in InvalidTargetMessages

\* C18: an assignment, simple or compound, to an Identifier, Member, Index or
\* This-member target is accepted; an assignment to any other target is
\* rejected with the invalid-target diagnostic and gives no node.
C18_AssignmentTargets ==
  (exprRun.done /\ inputOf(exprRun) \in AssignmentInputs) =>
    IF targetOf(inputOf(exprRun)) \in LValueTargets
      THEN assignedAll(exprRun)
      ELSE rejectedTarget(exprRun)

\* ExpressionParseVisitor::parseAssignment never looks at the target: every
\* target its primary parser accepts is assigned to, without a diagnostic
ParseAssignmentTakesAnyTarget ==
  ( /\ exprRun.done
    /\ exprRun.impl = "ExpressionParseVisitor"
    /\ inputOf(exprRun) \in AssignmentInputs ) =>
    IF targetOf(inputOf(exprRun)) = <<"THIS", "DOT", "IDENTIFIER">>
      THEN exprRun.node = Null /\ exprRun.diags = <<"Expected expression">>
      ELSE exprRun.node.kind = "Assignment" /\ exprRun.diags = <<>>

\* Parser::assignment accepts a Variable and nothing else: a call, a literal
\* or an operation in front of the operator throws with the diagnostic, and a
\* member or an index is not a target of it at all
ParserAssignsVariablesOnly ==
  ( /\ exprRun.done
    /\ exprRun.impl = "Parser"
    /\ inputOf(exprRun) \in AssignmentInputs ) =>
    LET t == targetOf(inputOf(exprRun)) IN
      IF t = <<"IDENTIFIER">> THEN assignedAll(exprRun)
      ELSE IF t \in LValueTargets
        THEN ~exprRun.thrown /\ exprRun.node.kind = "Variable"
               /\ exprRun.cur = 1
      ELSE exprRun.thrown /\ rejectedTarget(exprRun)


\* ---------------------------------------------------------------------------
\* the level of an operator in the precedence table: 1 binds tightest
levelOf(op) == CHOOSE i \in DOMAIN ExprOperators : ExprOperators[i] = op

OperationKinds ==
  {"Binary", "BinaryOp", "Assignment", "CompoundAssignment"}

\* operator and operands of an operation node of either tree
opOf(node) == node.op

leftOf(node) ==
  IF "target" \in DOMAIN node THEN node.target ELSE node.left

rightOf(node) ==
  IF "value" \in DOMAIN node THEN node.value ELSE node.right

\* the operator op as the run's parser names it
named(run, op) == IF run.impl = "Parser" THEN LexerKind(op) ELSE op

parsedAll(run) ==
  /\ ~run.thrown
  /\ run.diags = <<>>
  /\ run.cur = Len(run.toks) - 1
  /\ run.node.kind \in OperationKinds

\* (a op1 b) op2 c
groupedLeft(run, op1, op2) ==
  /\ parsedAll(run)
  /\ opOf(run.node) = named(run, op2)
  /\ leftOf(run.node).kind \in OperationKinds
  /\ opOf(leftOf(run.node)) = named(run, op1)
  /\ rightOf(run.node).kind \notin OperationKinds

\* a op1 (b op2 c)
groupedRight(run, op1, op2) ==
  /\ parsedAll(run)
  /\ opOf(run.node) = named(run, op1)
  /\ rightOf(run.node).kind \in OperationKinds
  /\ opOf(rightOf(run.node)) = named(run, op2)
  /\ leftOf(run.node).kind \notin OperationKinds

\* the inputs a op1 b op2 c whose left grouping would assign to an operation
AssignsToOperation(op1, op2) == op2 = "EQUALS" /\ op1 # "EQUALS"

\* a ? b : (c ? d : e)
conditionalRight(run) ==
  /\ ~run.thrown
  /\ run.diags = <<>>
  /\ run.cur = Len(run.toks) - 1
  /\ run.node.kind = "Conditional"
  /\ run.node.falseExpr.kind = "Conditional"

NestedConditional ==
  <<"IDENTIFIER", "QUESTION", "NUMBER", "COLON", "IDENTIFIER", "QUESTION",
    "NUMBER", "COLON", "STRING_LITERAL", "END_OF_FILE">>

\* C19: the operator of the higher level of the precedence table binds
\* tighter; two operators of the same binary level group to the left; two
\* assignments and two conditionals group to the right.
C19_PrecedenceTable ==
  exprRun.done =>
    LET toks == inputOf(exprRun) IN
      /\ (toks \in TwoOperatorInputs /\ ~AssignsToOperation(toks[2], toks[4]))
           => IF \/ levelOf(toks[2]) < levelOf(toks[4])
                 \/ levelOf(toks[2]) = levelOf(toks[4]) /\ toks[2] # "EQUALS"
                THEN groupedLeft(exprRun, toks[2], toks[4])
                ELSE groupedRight(exprRun, toks[2], toks[4])
      /\ toks = NestedConditional => conditionalRight(exprRun)

\* the operators ExpressionParseVisitor knows: '*', '+', one level for the
\* relational and the equality operators, and the assignment
KnownToParseExpression == {"STAR", "PLUS", "LESS", "EQUALS_EQUALS", "EQUALS"}

\* the levels of ExpressionParseVisitor: parseMultiplicative, parseAdditive,
\* parseComparison, parseAssignment
parseLevelOf(op) ==
  CASE op = "STAR" -> 1
    [] op = "PLUS" -> 2
    [] op \in {"LESS", "EQUALS_EQUALS"} -> 3
    [] op = "EQUALS" -> 4

\* ExpressionParseVisitor groups by its own four levels, with '<' and '=='
\* on one level, and stops in front of every operator it does not know
ParseExpressionHasFourLevels ==
  ( /\ exprRun.done
    /\ exprRun.impl = "ExpressionParseVisitor"
    /\ inputOf(exprRun) \in TwoOperatorInputs ) =>
    LET toks == inputOf(exprRun) IN
      IF toks[2] \notin KnownToParseExpression
        THEN exprRun.node.kind = "Identifier" /\ exprRun.cur = 1
      ELSE IF toks[4] \notin KnownToParseExpression
        THEN exprRun.cur = 3 /\ exprRun.node.kind \in OperationKinds
      ELSE IF \/ parseLevelOf(toks[2]) < parseLevelOf(toks[4])
              \/ parseLevelOf(toks[2]) = parseLevelOf(toks[4])
                   /\ toks[2] # "EQUALS"
        THEN groupedLeft(exprRun, toks[2], toks[4])
        ELSE groupedRight(exprRun, toks[2], toks[4])

\* BinaryExpressionVisitor::parseBinary takes a unary operand behind every
\* operator: it groups to the left whatever the two operators are
ParseBinaryGroupsLeft ==
  ( /\ exprRun.done
    /\ exprRun.impl = "BinaryExpressionVisitor"
    /\ inputOf(exprRun) \in TwoOperatorInputs ) =>
    groupedLeft(exprRun, inputOf(exprRun)[2], inputOf(exprRun)[4])

\* the levels of Parser, from Parser::factor down to Parser::assignment: the
\* shifts stand below the relational and the equality operators, and the
\* lexer's token of '^' is POWER, which no level matches
parserLevelOf(op) ==
  CASE op = "STAR" -> 1
    [] op = "PLUS" -> 2
    [] op = "LESS" -> 3
    [] op = "EQUALS_EQUALS" -> 4
    [] op = "LEFT_SHIFT" -> 5
    [] op = "AMPERSAND" -> 6
    [] op = "PIPE" -> 8
    [] op = "AMPERSAND_AMPERSAND" -> 9
    [] op = "PIPE_PIPE" -> 10
    [] op = "EQUALS" -> 11

ParserShiftsBelowComparisons ==
  ( /\ exprRun.done
    /\ exprRun.impl = "Parser"
    /\ inputOf(exprRun) \in TwoOperatorInputs
    /\ "CARET" \notin {inputOf(exprRun)[2], inputOf(exprRun)[4]}
    /\ ~AssignsToOperation(inputOf(exprRun)[2], inputOf(exprRun)[4]) ) =>
    LET toks == inputOf(exprRun) IN
      IF \/ parserLevelOf(toks[2]) < parserLevelOf(toks[4])
         \/ parserLevelOf(toks[2]) = parserLevelOf(toks[4])
              /\ toks[2] # "EQUALS"
        THEN groupedLeft(exprRun, toks[2], toks[4])
        ELSE groupedRight(exprRun, toks[2], toks[4])


(***************************************************************************)
(* Specification of the scopes of the type checker: checkAST() on an AST   *)
(* of up to MaxScopeNodes top-level nodes that declare and use the name x  *)
(* in blocks, for loops and functions.                                     *)
(***************************************************************************)
IdentifierX == Identifier("x")

UseX == [kind |-> "ExpressionStmt", expression |-> IdentifierX]

UseF == [kind |-> "ExpressionStmt", expression |-> Identifier("f")]

\* let x = 1  and  let x = true
VarDeclX(init) ==
  [kind |-> "VarDecl", name |-> "x", type |-> Null, initializer |-> init]

ScopeVarDecls ==
  {VarDeclX(Literal("NUMBER", <<"1">>)), VarDeclX(Literal("TRUE", <<>>))}

DeclStmt(declaration) ==
  [kind |-> "DeclarationStmt", declaration |-> declaration]

BlockOf(statements) == [kind |-> "Block", statements |-> statements]

LetBool == DeclStmt(VarDeclX(Literal("TRUE", <<>>)))

\* function f(..) { .. } without parameters and with the parameter x: bool
ScopeFuncDecls ==
  {[kind |-> "FunctionDecl", name |-> "f", parameters |-> parameters,
    returnType |-> Null, body |-> body] :
     parameters \in {<<>>, <<Parameter("x", PrimitiveType("BOOLEAN"))>>},
     body \in {BlockOf(<<UseX>>), BlockOf(<<LetBool>>)}}

\* the bodies of the blocks: uses before, behind and without a declaration,
\* and around an inner block
ScopeBodies ==
  { <<UseX>>, <<LetBool>>, <<LetBool, UseX>>,
    <<BlockOf(<<UseX>>)>>, <<LetBool, BlockOf(<<UseX>>)>>,
    <<BlockOf(<<LetBool>>), UseX>>,
    <<BlockOf(<<LetBool>>), BlockOf(<<UseX>>)>> }

\* the blocks, and the block that declares the function f
ScopeBlocks ==
  {BlockOf(body) : body \in ScopeBodies}
    \cup {BlockOf(<<DeclStmt([kind |-> "FunctionDecl", name |-> "f",
                              parameters |-> <<>>, returnType |-> Null,
                              body |-> BlockOf(<<UseF>>)])>>)}

\* for (;;), for (let x = true; x; x) and for (; x;) around a use and
\* around a block with a declaration
ScopeForStmts ==
  {ForStmt(header[1], header[2], header[3], body) :
     header \in {<<Null, Null, Null>>, <<LetBool, IdentifierX, IdentifierX>>,
                 <<Null, IdentifierX, Null>>},
     body \in {UseX, BlockOf(<<LetBool>>)}}

\* if (x) let x = true; else x;  and  if (x) { let x = true; } else x;
ScopeIfStmts ==
  {IfStmt(IdentifierX, thenBranch, UseX) :
     thenBranch \in {LetBool, BlockOf(<<LetBool>>)}}

\* while (x) { let x = true; }
ScopeWhileStmts == {WhileStmt(IdentifierX, BlockOf(<<LetBool>>))}

\* switch (x) { case x: let x = true; default: x; }
ScopeSwitchStmts ==
  {SwitchStmt(IdentifierX, <<SwitchCase(FALSE, IdentifierX, <<LetBool>>),
                             SwitchCase(TRUE, Null, <<UseX>>)>>)}

ScopeTopLevel ==
  ScopeVarDecls \cup {UseX, UseF} \cup ScopeBlocks \cup ScopeForStmts
    \cup ScopeFuncDecls \cup ScopeIfStmts \cup ScopeWhileStmts
    \cup ScopeSwitchStmts

ScopeAsts == SeqsUpTo(ScopeTopLevel, MaxScopeNodes)

ScopeInit ==
  /\ \E nodes \in ScopeAsts : checker = CheckerCtor(nodes)
  /\ diagnostics = <<>>
  /\ parser = ParserCtor("h")
  /\ TSIdle
  /\ LexIdle
  /\ PipIdle
  /\ RepIdle
  /\ ExpIdle

ScopeNext ==
  \/ CheckASTCollect
  \/ CheckASTIter
  \/ CheckASTReturn

ScopeSpec == ScopeInit /\ [][ScopeNext]_vars


(***************************************************************************)
(* Claims about the scopes of the type checker                             *)
(***************************************************************************)
\* lexical scoping, read off the AST: env is the sequence of the frames of
\* the enclosing blocks, the innermost last, and uses the identifiers met so
\* far with the type of the declaration each of them denotes
innermost(env, name) ==
  LET holding == {k \in DOMAIN env : name \in DOMAIN env[k]}
  IN IF holding = {} THEN errorType_
     ELSE env[CHOOSE k \in holding : \A m \in holding : m <= k][name]

declaredIn(env, name, type) ==
  [env EXCEPT ![Len(env)] = bind(@, name, type)]

\* the identifiers of an expression, in the order of their evaluation
RECURSIVE lexicalExpr(_, _)
lexicalExpr(E, node) ==
  IF node.kind = "Identifier"
    THEN [E EXCEPT !.uses = Append(@, [name |-> node.name,
                                       type |-> innermost(E.env, node.name)])]
  ELSE IF node.kind = "Binary"
    THEN lexicalExpr(lexicalExpr(E, node.left), node.right)
  ELSE IF node.kind = "Assignment"
    THEN lexicalExpr(lexicalExpr(E, node.target), node.value)
  ELSE E

\* the type a declaration gives its name: the declarations of the ASTs are
\* initialised with a literal, the parameters are of type bool and the
\* functions return nothing
declaredType(node) ==
  IF node.kind = "FunctionDecl"
    THEN Function(voidType_, [i \in DOMAIN node.parameters |-> boolType_])
  ELSE IF node.initializer.type = "NUMBER" THEN intType_
  ELSE boolType_

RECURSIVE lexical(_, _)
RECURSIVE lexicalAll(_, _, _)
RECURSIVE lexicalCases(_, _, _)

lexicalAll(E, statements, i) ==
  IF i > Len(statements) THEN E
  ELSE lexicalAll(lexical(E, statements[i]), statements, i + 1)

\* the names of a block, a loop, a case or a function end with it
inner(E, F) == [env |-> E.env, uses |-> F.uses]

\* a block, a loop, a case or a function opens a scope of its own
opened(E) == [E EXCEPT !.env = Append(@, NoBindings)]

lexicalCases(E, cases, i) ==
  IF i > Len(cases) THEN E
  ELSE lexicalCases(
         inner(E, lexicalAll(opened(IF cases[i].value # Null
                                      THEN lexicalExpr(E, cases[i].value)
                                      ELSE E),
                             cases[i].body, 1)),
         cases, i + 1)

lexical(E, node) ==
  IF node.kind = "ExpressionStmt" THEN lexicalExpr(E, node.expression)
  ELSE IF node.kind = "DeclarationStmt" THEN lexical(E, node.declaration)
  ELSE IF node.kind = "VarDecl"
    THEN [lexicalExpr(E, node.initializer) EXCEPT
            !.env = declaredIn(@, node.name, declaredType(node))]
  ELSE IF node.kind = "Block"
    THEN inner(E, lexicalAll(opened(E), node.statements, 1))
  ELSE IF node.kind = "IfStmt"
    THEN lexical(lexical(lexicalExpr(E, node.condition), node.thenBranch),
                 node.elseBranch)
  ELSE IF node.kind = "WhileStmt"
    THEN lexical(lexicalExpr(E, node.condition), node.body)
  ELSE IF node.kind = "ForStmt"
    THEN inner(E, lexical(lexicalExpr(lexicalExpr(
                            lexical(opened(E), node.initializer),
                            node.condition), node.increment),
                          node.body))
  ELSE IF node.kind = "SwitchStmt"
    THEN lexicalCases(lexicalExpr(E, node.expression), node.cases, 1)
  ELSE IF node.kind = "FunctionDecl"
    THEN inner([E EXCEPT !.env = declaredIn(@, node.name, declaredType(node))],
               lexical(
                 [E EXCEPT !.env =
                    Append(declaredIn(@, node.name, declaredType(node)),
                           [n \in {node.parameters[i].name :
                                     i \in DOMAIN node.parameters} |->
                              boolType_])],
                 node.body))
  ELSE E

lexicalUses(nodes) ==
  lexicalAll([env |-> <<NoBindings>>, uses |-> <<>>], nodes, 1).uses

IsPrefix(s, t) ==
  Len(s) <= Len(t) /\ \A i \in DOMAIN s : s[i] = t[i]

\* C20: every identifier resolves as lexical scoping demands: to the
\* innermost declaration of an enclosing block that stands before it, and to
\* nothing when the name is declared only in blocks, loops or functions that
\* have been left or that do not enclose it.
C20_ScopesAreLexical ==
  /\ IsPrefix(checker.lookups, lexicalUses(checker.nodes))
  /\ checker.done => checker.lookups = lexicalUses(checker.nodes)

\* an AST has been checked in which x resolved inside the scope that
\* declares it and was undefined behind that scope
C20_Witness ==
  /\ checker.done
  /\ Len(checker.scopes) > 1
  /\ \E i, j \in DOMAIN checker.lookups :
       /\ i < j
       /\ checker.lookups[i].type = boolType_
       /\ checker.lookups[j].type = errorType_

\* between two top-level nodes the global scope is the current one again
GlobalScopeBetweenNodes == checker.currentScope_ = 1


(***************************************************************************)
(* Return statements and the function they stand in.  The type checker is  *)
(* run on programs of one function, one return statement or one block of   *)
(* return statements, or a function and one of these; the body of the      *)
(* function holds return statements and nested function declarations.      *)
(***************************************************************************)
MaxReturnBody == 2

ReturnStmt(value) == [kind |-> "ReturnStmt", value |-> value]

FunctionDecl(name, returnType, statements) ==
  [kind |-> "FunctionDecl", name |-> name, parameters |-> <<>>,
   returnType |-> returnType, body |-> BlockOf(statements)]

\* return;  and  return 1;
ReturnStmts == {ReturnStmt(Null), ReturnStmt(Literal("NUMBER", <<"1">>))}

\* function g() { .. }  and  function g(): string { .. }
InnerFuncDecls ==
  {FunctionDecl("g", returnType, statements) :
     returnType \in {Null, PrimitiveType("STRING")},
     statements \in {<<>>} \cup {<<r>> : r \in ReturnStmts}}

\* function f() { .. }  and  function f(): int { .. }
OuterFuncDecls ==
  {FunctionDecl("f", returnType, statements) :
     returnType \in {Null, PrimitiveType("INT")},
     statements \in SeqsUpTo(ReturnStmts
                               \cup {DeclStmt(g) : g \in InnerFuncDecls},
                             MaxReturnBody)}

\* { return; return 1; } and the like, outside every function
ReturnBlocks ==
  {BlockOf(statements) :
     statements \in SeqsUpTo(ReturnStmts, MaxNullReads) \ {<<>>}}

ReturnAsts ==
  {<<f>> : f \in OuterFuncDecls}
    \cup {<<b>> : b \in ReturnBlocks}
    \cup {<<f, b>> : f \in OuterFuncDecls, b \in ReturnBlocks}
    \cup {<<r>> : r \in ReturnStmts}
    \cup {<<f, r>> : f \in OuterFuncDecls, r \in ReturnStmts}
    \cup {<<r, f>> : r \in ReturnStmts, f \in OuterFuncDecls}

ReturnInit ==
  /\ \E nodes \in ReturnAsts : checker = CheckerCtor(nodes)
  /\ diagnostics = <<>>
  /\ parser = ParserCtor("h")
  /\ TSIdle
  /\ LexIdle
  /\ PipIdle
  /\ RepIdle
  /\ ExpIdle

ReturnNext ==
  \/ CheckASTCollect
  \/ CheckASTIter
  \/ CheckASTReturn

ReturnSpec == ReturnInit /\ [][ReturnNext]_vars

\* the type a return statement hands to the comparison
returnedTypeOf(stmt) ==
  IF stmt.value = Null THEN voidType_
  ELSE IF stmt.value.type = "NUMBER" THEN intType_
  ELSE stringType_

\* the return type a function declaration states, Void when it states none
declaredReturnType(decl) ==
  IF decl.returnType = Null THEN voidType_
  ELSE IF decl.returnType.type = "INT" THEN intType_
  ELSE stringType_

\* the return statements of the statements from the i-th on, in the order
\* of the text, each with the return type of the function declaration that
\* directly encloses it (Null outside every function)
RECURSIVE enclosingOfReturns(_, _, _)
enclosingOfReturns(statements, i, enclosing) ==
  IF i > Len(statements) THEN <<>>
  ELSE With([stmt \in {statements[i]} |->
         (IF stmt.kind = "ReturnStmt"
            THEN <<[value |-> returnedTypeOf(stmt), against |-> enclosing]>>
          ELSE IF stmt.kind = "FunctionDecl"
            THEN enclosingOfReturns(stmt.body.statements, 1,
                                    declaredReturnType(stmt))
          ELSE IF stmt.kind = "DeclarationStmt"
            THEN enclosingOfReturns(stmt.declaration.body.statements, 1,
                                    declaredReturnType(stmt.declaration))
          ELSE IF stmt.kind = "Block"
            THEN enclosingOfReturns(stmt.statements, 1, enclosing)
          ELSE <<>>)
           \o enclosingOfReturns(statements, i + 1, enclosing)])

\* C21: every return statement inside a function is compared with the
\* return type of the function declaration that directly encloses it (Void
\* when the declaration states none), and a diagnostic is emitted exactly
\* when the returned type (Void for a bare return) is not assignable to that
\* type, for any order and nesting of the function declarations
C21_ReturnsAgainstEnclosingFunction ==
  With([expected \in {enclosingOfReturns(checker.nodes, 1, Null)} |->
    /\ Len(checker.returnChecks) <= Len(expected)
    /\ \A i \in DOMAIN checker.returnChecks :
         expected[i].against # Null =>
           /\ checker.returnChecks[i].value = expected[i].value
           /\ checker.returnChecks[i].against = expected[i].against
           /\ checker.returnChecks[i].reported
                <=> (expected[i].value # expected[i].against)])

\* the return types of the function declarations of the statements from the
\* i-th on, in the order in which visitFuncDecl is entered, up to the n-th
\* return statement; the last of them is the type the member holds there
RECURSIVE enteredBefore(_, _, _)
enteredBefore(statements, i, n) ==
  IF i > Len(statements) \/ n <= 0 THEN <<>>
  ELSE With([stmt \in {statements[i]} |->
         With([here \in {IF stmt.kind = "ReturnStmt" THEN <<>>
              ELSE IF stmt.kind = "FunctionDecl"
                THEN <<declaredReturnType(stmt)>>
                       \o enteredBefore(stmt.body.statements, 1, n)
              ELSE IF stmt.kind = "DeclarationStmt"
                THEN <<declaredReturnType(stmt.declaration)>>
                       \o enteredBefore(stmt.declaration.body.statements, 1, n)
              ELSE IF stmt.kind = "Block"
                THEN enteredBefore(stmt.statements, 1, n)
              ELSE <<>>} |->
           here \o enteredBefore(
                     statements, i + 1,
                     n - (IF stmt.kind = "ReturnStmt" THEN 1
                          ELSE Len(enclosingOfReturns(<<stmt>>, 1, Null))))])])

\* what the checker does: a return statement is compared with the return
\* type of the function declaration entered last before it, whether the
\* statement stands in that function or behind it
ReturnsAgainstLastEnteredFunction ==
  \A i \in DOMAIN checker.returnChecks :
    With([entered \in {enteredBefore(checker.nodes, 1, i)} |->
      checker.returnChecks[i].against =
        IF entered = <<>> THEN Null ELSE entered[Len(entered)]])

\* a return statement behind a nested function declaration was compared
\* with the return type of the nested function
StaleReturnType ==
  \E i \in DOMAIN checker.returnChecks :
    With([expected \in {enclosingOfReturns(checker.nodes, 1, Null)} |->
      /\ expected[i].against \notin {Null,
                                     checker.returnChecks[i].against}])


\* C29: type-checking a return statement that stands in no function
\* declaration never reads through currentFunctionReturnType_ while that
\* pointer is unset
C29_NoNullDereference == ~checker.derefNull

\* the pointer is read unset exactly by the return statements that the
\* checker reaches before the first function declaration
NullDereferenceBeforeFirstFunction ==
  checker.derefNull <=>
    /\ checker.returnChecks # <<>>
    /\ checker.nodes[1].kind \in {"ReturnStmt", "Block"}

\* every read through the unset pointer is a read of its own: the first
\* return statement of a block compares, the second ends the process
SecondReadEndsTheProcess ==
  /\ checker.crashed
  /\ Len(checker.returnChecks) = 2
  /\ checker.returnChecks[1].against = Null
  /\ checker.returnChecks[2].against = Null

\* behind a function declaration a return statement outside every function
\* is compared with the return type that declaration left in the member
ReturnOutsideFunctionAgainstLeftover ==
  checker.done /\ Len(checker.nodes) = 2
    /\ checker.nodes[2].kind \in {"ReturnStmt", "Block"} =>
      /\ ~checker.derefNull
      /\ checker.returnChecks[Len(checker.returnChecks)].against
           \in {voidType_, intType_, stringType_}


(***************************************************************************)
(* Bodies and their braces.  The parser is run on well-formed programs: a  *)
(* block statement, a function declaration with or without a parameter and *)
(* a return type, or a class declaration with fields, methods,             *)
(* constructors, getters and setters, with or without a statement behind   *)
(* it.                                                                     *)
(***************************************************************************)
MaxBodyStmts == 2

MaxMembers == 2

RECURSIVE Flat(_)
Flat(parts) ==
  IF parts = <<>> THEN <<>> ELSE parts[1] \o Flat(SubSeq(parts, 2, Len(parts)))

\* a;
SimpleStmt == <<"IDENTIFIER", "SEMICOLON">>

\* { .. }
Braces(inside) == <<"LEFT_BRACE">> \o inside \o <<"RIGHT_BRACE">>

BodyTokens ==
  {Flat(parts) : parts \in SeqsUpTo({SimpleStmt, Braces(<<>>)}, MaxBodyStmts)}

\* function f() { .. }
FunctionTokens(body) ==
  <<"FUNCTION", "IDENTIFIER", "LEFT_PAREN", "RIGHT_PAREN">> \o Braces(body)

\* constructor() { .. }
ConstructorTokens(body) ==
  <<"CONSTRUCTOR", "LEFT_PAREN", "RIGHT_PAREN">> \o Braces(body)

\* function f(a: int): int { .. }
TypedFunctionTokens(body) ==
  <<"FUNCTION", "IDENTIFIER", "LEFT_PAREN", "IDENTIFIER", "COLON", "INT",
    "RIGHT_PAREN", "COLON", "INT">> \o Braces(body)

\* constructor(a) { .. }
ParameterConstructorTokens(body) ==
  <<"CONSTRUCTOR", "LEFT_PAREN", "IDENTIFIER", "RIGHT_PAREN">> \o Braces(body)

\* get p { .. }
GetterTokens(body) == <<"GET", "IDENTIFIER">> \o Braces(body)

\* set p(a) { .. }
SetterTokens(body) ==
  <<"SET", "IDENTIFIER", "LEFT_PAREN", "IDENTIFIER", "RIGHT_PAREN">>
    \o Braces(body)

\* let a;
FieldTokens == <<"LET", "IDENTIFIER", "SEMICOLON">>

MemberTokens ==
  {FieldTokens}
    \cup {FunctionTokens(body) : body \in {<<>>, SimpleStmt}}
    \cup {ConstructorTokens(body) : body \in {<<>>, SimpleStmt}}
    \cup {TypedFunctionTokens(<<>>), ParameterConstructorTokens(<<>>),
          GetterTokens(SimpleStmt), SetterTokens(<<>>)}

\* class A { .. }
ClassTokens(members) == <<"CLASS", "IDENTIFIER">> \o Braces(Flat(members))

BodyInputs ==
  {construct \o tail \o <<"END_OF_FILE">> :
     construct \in {Braces(body) : body \in BodyTokens}
                     \cup {FunctionTokens(body) : body \in BodyTokens}
                     \cup {TypedFunctionTokens(body) : body \in BodyTokens}
                     \cup {ClassTokens(members) :
                             members \in SeqsUpTo(MemberTokens, MaxMembers)},
     tail \in {<<>>, SimpleStmt}}

BodyInit ==
  /\ \E toks \in BodyInputs : tokens_ = TokenStreamCtor(toks)
  /\ current_ = 0
  /\ lastCall = NoCall
  /\ ret = FALSE
  /\ everMoved = FALSE
  /\ LexIdle
  /\ PipIdle
  /\ RepIdle
  /\ ExpIdle
  /\ \E impl \in {"h", "cpp"} : parser = ParserCtor(impl)
  /\ diagnostics = <<>>
  /\ checker = CheckerCtor(<<>>)

BodySpec == BodyInit /\ [][ParseNext]_vars

\* the cursor of the '}' that closes the '{' in front of cur, for depth
\* further '{' open; the length of toks if there is none
RECURSIVE closingBrace(_, _, _)
closingBrace(toks, cur, depth) ==
  IF cur >= Len(toks) THEN Len(toks)
  ELSE IF toks[cur + 1] = "RIGHT_BRACE"
    THEN IF depth = 0 THEN cur ELSE closingBrace(toks, cur + 1, depth - 1)
  ELSE IF toks[cur + 1] = "LEFT_BRACE"
    THEN closingBrace(toks, cur + 1, depth + 1)
  ELSE closingBrace(toks, cur + 1, depth)

\* the cursor of the '}' that matches the '{' at cursor open
matchingBrace(toks, open) == closingBrace(toks, open + 1, 0)

\* the loop of parseBlock() has ended in front of a '}', which parseBlock()
\* consumes next
aboutToClose == InnermostBlock /\ check(tokens_, current_, "RIGHT_BRACE")

\* C22: parseBlock() parses up to the '}' that matches the '{' of its body
\* and consumes exactly that '}': while the body of a block, function,
\* method or constructor is parsed the cursor does not pass the brace that
\* closes the body, and the '}' the parse consumes is that brace
C22_BodyEndsAtOwnBrace ==
  InnermostBlock =>
    /\ current_ <= matchingBrace(tokens_, Last(parser.frames).open)
    /\ aboutToClose =>
         current_ = matchingBrace(tokens_, Last(parser.frames).open)

\* blocks and function bodies, whose '{' the caller matched, end at their
\* own brace
MatchedBodiesEndAtOwnBrace ==
  aboutToClose /\ Last(parser.frames).kind \notin BraceLeft =>
    current_ = matchingBrace(tokens_, Last(parser.frames).open)

\* the bodies of methods and constructors, whose '{' the caller only
\* checked, end at a '}' behind their own: the body was parsed as a block
\* statement of parseBlock(), which then closes at the next '}'
CheckedBodiesEndBehindOwnBrace ==
  aboutToClose /\ Last(parser.frames).kind \in BraceLeft =>
    current_ > matchingBrace(tokens_, Last(parser.frames).open)


\* the statement at the cursor, inside the block whose loop is innermost,
\* fails to parse: parseStatement() returns nullptr to parseBlock()
statementFails ==
  /\ InnermostBlock
  /\ inBody(tokens_, current_)
  /\ Len(diagnostics) < ParseDiagCap(tokens_)
  /\ With([parsed \in {parseStatement(parser.impl, tokens_, current_)} |->
       parsed.tag = "done" /\ parsed.res.node = Null])

\* where synchronize() of statement_parse_visitor.h leaves the cursor
\* behind the failed statement at the cursor
synchronized ==
  Statement_synchronize("h", tokens_,
                        parseStatement(parser.impl, tokens_, current_).res.cur)

\* C23: when a statement inside a block fails to parse, synchronize() is
\* performed, and the block keeps scanning its own statements: the cursor
\* stays in front of, or on, the '}' that closes the block
C23_BlockKeepsScanning ==
  [][statementFails =>
       /\ current_' = synchronized
       /\ Len(parser'.frames) = Len(parser.frames)
       /\ current_' <= matchingBrace(tokens_, Last(parser.frames).open)]_vars

\* parseBlock() of statement_parse_visitor.h synchronizes behind a failed
\* statement and goes on with its loop
HeaderBlockSynchronizes ==
  [][statementFails /\ parser.impl = "h" =>
       /\ current_' = synchronized
       /\ Len(parser'.frames) = Len(parser.frames)]_vars

\* that synchronize() keeps the cursor inside the block: refuted by the
\* tokens  { let }  , where it advances over the '}' of the block
HeaderBlockStaysInBlock ==
  [][statementFails /\ parser.impl = "h" =>
       current_' <= matchingBrace(tokens_, Last(parser.frames).open)]_vars

\* parseBlock() of statement_parse_visitor.cpp leaves the cursor where the
\* statement failed
SourceBlockSkipsNothing ==
  [][statementFails /\ parser.impl = "cpp" =>
       /\ current_' = parseStatement("cpp", tokens_, current_).res.cur
       /\ Len(parser'.frames) = Len(parser.frames)]_vars


(***************************************************************************)
(* Recovery in a class body.  The parser is run on class declarations      *)
(* whose members are fields, well-formed or not, and constructors and      *)
(* methods whose parameter list fails, with or without a declaration or a  *)
(* block behind the class.                                                 *)
(***************************************************************************)
\* let a;  let ;  let a  let  ;
FieldAttempts ==
  {FieldTokens, <<"LET", "SEMICOLON">>, <<"LET", "IDENTIFIER">>, <<"LET">>,
   <<"SEMICOLON">>}

\* constructor( ;  and  function m( ;
ParameterAttempts ==
  {<<"CONSTRUCTOR", "LEFT_PAREN", "SEMICOLON">>,
   <<"FUNCTION", "IDENTIFIER", "LEFT_PAREN", "SEMICOLON">>}

RecoveryInputs ==
  {ClassTokens(members) \o tail \o <<"END_OF_FILE">> :
     members \in SeqsUpTo(FieldAttempts \cup ParameterAttempts, MaxMembers),
     tail \in {<<>>, FieldTokens, Braces(SimpleStmt)}}

RecoveryInit ==
  /\ \E toks \in RecoveryInputs : tokens_ = TokenStreamCtor(toks)
  /\ current_ = 0
  /\ lastCall = NoCall
  /\ ret = FALSE
  /\ everMoved = FALSE
  /\ LexIdle
  /\ PipIdle
  /\ RepIdle
  /\ ExpIdle
  /\ \E impl \in {"h", "cpp"} : parser = ParserCtor(impl)
  /\ diagnostics = <<>>
  /\ checker = CheckerCtor(<<>>)

RecoverySpec == RecoveryInit /\ [][ParseNext]_vars

\* the member at the cursor, in the class body whose loop is innermost,
\* fails to parse: parseMemberDecl() returns nullptr to parseClassDecl()
memberFails ==
  /\ Innermost("class")
  /\ inBody(tokens_, current_)
  /\ With([parsed \in {parseMemberDecl(tokens_, current_)} |->
       parsed.tag = "done" /\ parsed.res.node = Null])

\* where synchronize() of ClassDeclarationVisitor leaves the cursor behind
\* the failed member at the cursor
resynchronized ==
  Class_synchronize(tokens_, parseMemberDecl(tokens_, current_).res.cur)

\* parseClassDecl() has returned the class node to visitParse()
classReturned ==
  /\ parser'.frames = <<>>
  /\ parser'.nodes_ = Append(parser.nodes_, "ClassDecl")
  /\ parser'.hadError = parser.hadError

\* C24: when a class member fails to parse, the class-body parse does not
\* return null: it synchronizes and either returns the class node or goes
\* on with the member loop, and then the cursor stands in the body of the
\* same class, in front of the '}' that closes it, so that what the loop
\* parses next is a remaining member of that class
C24_ClassSurvivesFailedMember ==
  [][memberFails =>
       \/ /\ parser'.frames = parser.frames
          /\ current_' = resynchronized
          /\ current_' < matchingBrace(tokens_, Last(parser.frames).open)
       \/ classReturned]_vars

\* behind a failed member the loop goes on or the class node is returned:
\* no failure of a member makes parseClassDecl() return nullptr
ClassNodeDespiteFailedMember ==
  [][memberFails =>
       \/ parser'.frames = parser.frames /\ current_' = resynchronized
       \/ classReturned]_vars

\* synchronize() moves the cursor by at least one token, whatever token the
\* member failed on
ResynchronizeAdvances ==
  memberFails =>
    resynchronized > parseMemberDecl(tokens_, current_).res.cur
      \/ isAtEnd(tokens_, parseMemberDecl(tokens_, current_).res.cur)


(***************************************************************************)
(* The two forms of the for statement.  The parser is run on well-formed   *)
(* for statements: any of the three clauses of the classic header present  *)
(* or absent, the initializer an expression or a let / const declaration,  *)
(* and the for-of header; the body is a statement or a block.              *)
(***************************************************************************)
\* let i = 0  and  const i = 0
ForDeclarations ==
  {<<keyword, "IDENTIFIER", "EQUALS", "NUMBER">> : keyword \in {"LET", "CONST"}}

\* init? ; cond? ; inc?
ClassicHeaders ==
  {init \o <<"SEMICOLON">> \o cond \o <<"SEMICOLON">> \o inc :
     init \in {<<>>, <<"IDENTIFIER">>} \cup ForDeclarations,
     cond \in {<<>>, <<"IDENTIFIER">>},
     inc \in {<<>>, <<"IDENTIFIER">>}}

\* let x of xs  and  const x of xs
ForOfHeaders ==
  {<<keyword, "IDENTIFIER", "OF", "IDENTIFIER">> : keyword \in {"LET", "CONST"}}

ForInputs ==
  {<<"FOR", "LEFT_PAREN">> \o header \o <<"RIGHT_PAREN">> \o body \o tail
     \o <<"END_OF_FILE">> :
     header \in ClassicHeaders \cup ForOfHeaders,
     body \in {SimpleStmt, Braces(<<>>), Braces(SimpleStmt)},
     tail \in {<<>>, SimpleStmt}}

ForInit ==
  /\ \E toks \in ForInputs : tokens_ = TokenStreamCtor(toks)
  /\ current_ = 0
  /\ lastCall = NoCall
  /\ ret = FALSE
  /\ everMoved = FALSE
  /\ LexIdle
  /\ PipIdle
  /\ RepIdle
  /\ ExpIdle
  /\ \E impl \in {"h", "cpp"} : parser = ParserCtor(impl)
  /\ diagnostics = <<>>
  /\ checker = CheckerCtor(<<>>)

\* the token sequences hold no class
ForNext ==
  \/ VisitParseIter
  \/ VisitParseReturn
  \/ ParseBlockIter
  \/ ParseBlockReturn

ForSpec == ForInit /\ [][ForNext]_vars

\* behind 'for' '(' stand 'let' or 'const', an identifier and 'of'
forOfHeader(toks) ==
  /\ toks[3] \in {"LET", "CONST"}
  /\ toks[4] = "IDENTIFIER"
  /\ toks[5] = "OF"

\* the for statement at the start of the input has been parsed, or given
\* up, and nothing has been parsed behind it
forStatementDone ==
  /\ parser.frames = <<>>
  /\ \/ Len(parser.nodes_) = 1 /\ ~parser.hadError
     \/ parser.nodes_ = <<>> /\ parser.hadError

\* C25: behind 'for' '(' the for-of form is chosen if and only if the first
\* token is 'let' or 'const' and the declared identifier is followed by
\* 'of'; every other header, the one with a let or const declaration as
\* initializer included, is parsed as the classic for loop
C25_ForOfIffDeclaredIdentifierOf ==
  forStatementDone =>
    /\ parser.nodes_ # <<>>
    /\ parser.nodes_[1] =
         IF forOfHeader(tokens_) THEN "ForOfStmt" ELSE "ForStmt"

\* what parseForStatement does: 'let' or 'const' behind 'for' '(' alone
\* selects the for-of form, and a header that then has no 'of' is given up
\* with a diagnostic
ForOfChosenByKeywordAlone ==
  forStatementDone =>
    IF tokens_[3] \in {"LET", "CONST"}
      THEN IF forOfHeader(tokens_)
             THEN parser.nodes_[1] = "ForOfStmt"
             ELSE /\ parser.nodes_ = <<>>
                  /\ diagnostics[1] = "Expected 'of' after variable name"
      ELSE parser.nodes_ # <<>> /\ parser.nodes_[1] = "ForStmt"


(***************************************************************************)
(* Error types inside expressions.  The type checker is run on one         *)
(* statement, an expression statement or a let declaration, whose          *)
(* expression holds exactly one ill-typed sub-expression: the identifier   *)
(* x, which nothing declares.  Around it stand unary and binary operators  *)
(* and calls, the other operands are the literal 1.                        *)
(***************************************************************************)
MaxExprDepth == 2

LiteralOne == Literal("NUMBER", <<"1">>)

UnaryExpr(op, operand) == [kind |-> "Unary", op |-> op, operand |-> operand]

BinaryExpr(op, left, right) ==
  [kind |-> "Binary", op |-> op, left |-> left, right |-> right]

CallExpr(callee) == Call(callee, <<>>)

\* the number of times x occurs in the expression
RECURSIVE occurrences(_)
occurrences(e) ==
  IF e.kind = "Identifier" THEN 1
  ELSE IF e.kind = "Unary" THEN occurrences(e.operand)
  ELSE IF e.kind = "Binary" THEN occurrences(e.left) + occurrences(e.right)
  ELSE IF e.kind = "Call" THEN occurrences(e.callee)
  ELSE 0

\* x under at most depth operators that pass the type of x on: unary
\* operators, additions of 1 and calls
RECURSIVE ExprsOfDepth(_)
ExprsOfDepth(depth) ==
  IF depth = 0 THEN {IdentifierX}
  ELSE With([smaller \in {ExprsOfDepth(depth - 1)} |->
         smaller
           \cup {UnaryExpr(op, e) : op \in {"MINUS", "TILDE"}, e \in smaller}
           \cup {BinaryExpr(op, e, LiteralOne) :
                   op \in {"PLUS", "AMPERSAND"}, e \in smaller}
           \cup {BinaryExpr("PLUS", LiteralOne, e) : e \in smaller}
           \cup {CallExpr(e) : e \in smaller}])

\* these expressions, and their comparisons with 1
OneErrorExprs ==
  ExprsOfDepth(MaxExprDepth)
    \cup {BinaryExpr("LESS", e, LiteralOne) : e \in ExprsOfDepth(MaxExprDepth - 1)}

OneErrorAsts ==
  {<<[kind |-> "ExpressionStmt", expression |-> e]>> : e \in OneErrorExprs}
    \cup {<<VarDeclX(e)>> : e \in OneErrorExprs}

OneErrorInit ==
  /\ \E nodes \in OneErrorAsts : checker = CheckerCtor(nodes)
  /\ diagnostics = <<>>
  /\ parser = ParserCtor("h")
  /\ TSIdle
  /\ LexIdle
  /\ PipIdle
  /\ RepIdle
  /\ ExpIdle

OneErrorSpec == OneErrorInit /\ [][ScopeNext]_vars

\* the expression of the statement
checkedExpr ==
  IF checker.nodes[1].kind = "VarDecl" THEN checker.nodes[1].initializer
  ELSE checker.nodes[1].expression

\* C26: Error propagates without re-reporting: the one ill-typed
\* sub-expression of the statement yields exactly one diagnostic, whatever
\* expressions, statement or declaration stand around it
C26_OneErrorOneDiagnostic ==
  checker.done => Len(diagnostics) = 1

\* the operators around x that read the kind of their operand: the unary
\* operators but !, the arithmetic and bitwise operators, and calls; a
\* comparison asks isAssignableTo instead
RECURSIVE reportedAgain(_)
reportedAgain(e) ==
  IF e.kind = "Unary"
    THEN reportedAgain(e.operand) + (IF e.op = "EXCLAIM" THEN 0 ELSE 1)
  ELSE IF e.kind = "Call" THEN reportedAgain(e.callee) + 1
  ELSE IF e.kind = "Binary"
    THEN reportedAgain(e.left) + reportedAgain(e.right)
           + (IF isArithmeticOperator(e.op) \/ isBitwiseOperator(e.op)
                THEN 1 ELSE 0)
  ELSE 0

\* what the checker does: one diagnostic for x and one more for every
\* operator that reads the kind of an Error operand
ErrorReportedByEveryKindTest ==
  checker.done => Len(diagnostics) = 1 + reportedAgain(checkedExpr)

\* a comparison is the one operator that keeps an Error operand silent
ComparisonOfErrorSilent ==
  checker.done /\ checkedExpr = BinaryExpr("LESS", IdentifierX, LiteralOne)
    => diagnostics = <<"Undefined identifier: x">>

OneErrorChecked ==
  /\ checker.done
  /\ checkedExpr = BinaryExpr("PLUS", IdentifierX, LiteralOne)
  /\ diagnostics = <<"Undefined identifier: x",
                     "Invalid operands for arithmetic operator">>

ComparisonChecked ==
  /\ checker.done
  /\ checkedExpr = BinaryExpr("LESS", IdentifierX, LiteralOne)


(***************************************************************************)
(* processCode on a function that returns a value of the wrong type.  The  *)
(* sources are  function f(): int { return "hi"; }  and its variants: the  *)
(* returned value is "hi" or 1, and the body stands on the line of the     *)
(* header or on lines of its own.                                          *)
(***************************************************************************)
FunctionHeader ==
  <<"f", "u", "n", "c", "t", "i", "o", "n", " ", "f", "(", ")", ":", " ",
    "i", "n", "t", " ", "{">>

ReturnHi == <<"r", "e", "t", "u", "r", "n", " ", "\"", "h", "i", "\"", ";">>

ReturnOne == <<"r", "e", "t", "u", "r", "n", " ", "1", ";">>

ReturnBare == <<"r", "e", "t", "u", "r", "n", ";">>

BodyLayouts ==
  {[before |-> <<" ">>, behind |-> <<" ">>],
   [before |-> <<"\n">>, behind |-> <<"\n">>],
   [before |-> <<"\n", " ", " ">>, behind |-> <<" ">>],
   [before |-> <<" ">>, behind |-> <<"\n">>]}

FunctionSource(layout, statement) ==
  FunctionHeader \o layout.before \o statement \o layout.behind \o <<"}">>

\* function f(): int { return "hi"; }
OneLineFunction ==
  FunctionSource([before |-> <<" ">>, behind |-> <<" ">>], ReturnHi)

FunctionSources ==
  {FunctionSource(layout, statement) :
     layout \in BodyLayouts, statement \in {ReturnHi, ReturnOne, ReturnBare}}

FunctionPipelineInit ==
  /\ \E src \in FunctionSources : lexer = LexerCtor(src)
  /\ lexDone = FALSE
  /\ pipeline = PipelineCtor
  /\ RepIdle
  /\ ExpIdle
  /\ TSIdle
  /\ ParIdle

FunctionPipelineSpec == FunctionPipelineInit /\ [][PipelineNext]_vars

\* processCode has returned
processCodeDone == lexDone /\ pipeline.stage = "done"

\* C27: for the one-line source  function f(): int { return "hi"; }  the
\* lexer and the parser report nothing, the AST is built, and the pipeline
\* ends with exactly one diagnostic, the type checker's on the return
C27_OneSemanticDiagnostic ==
  processCodeDone /\ lexer.source_ = OneLineFunction
    => /\ lexer.errorCount = 0
       /\ pipeline.errors = <<>>
       /\ pipeline.parsed
       /\ Len(diagnostics) = 1

\* the return on the line of the function keyword is the lexer's error, and
\* processCode stops behind the lexer
SameLineReturnStopsPipeline ==
  processCodeDone /\ lexer.source_ = OneLineFunction
    => /\ lexer.errorCount = 1
       /\ ~pipeline.parsed
       /\ pipeline.statements = <<>>
       /\ diagnostics = <<>>

\* processCode never runs a type checker: whatever the source, no semantic
\* diagnostic is reported
ProcessCodeChecksNoTypes == diagnostics = <<>>


(***************************************************************************)
(* Signs in front of digits.  The lexer is run on every one-line source of *)
(* at most MaxSignSrcLen characters over an identifier character, a digit, *)
(* the two signs and the blank.                                            *)
(***************************************************************************)
MaxSignSrcLen == 4

SignAlphabet == {"a", "1", "-", "+", " "}

SignInit ==
  /\ \E src \in SeqsUpTo(SignAlphabet, MaxSignSrcLen) : lexer = LexerCtor(src)
  /\ lexDone = FALSE
  /\ TSIdle
  /\ PipIdle
  /\ RepIdle
  /\ ExpIdle
  /\ ParIdle

SignSpec == SignInit /\ [][LexNext]_vars

\* the number tokens emitted so far
numberTokens ==
  {i \in 1..Len(lexer.tokens_) : lexer.tokens_[i].type = "NUMBER_LITERAL"}

\* C28: the lexer never folds a sign into a numeric literal: every number
\* token is unsigned, a '-' or '+' in front of digits is a token of its own
C28_NumbersUnsigned ==
  \A i \in numberTokens : lexer.tokens_[i].lexeme[1] \notin {"-", "+"}

\* a '+' is never part of a number token of these sources
PlusNeverFolded ==
  \A i \in numberTokens : "+" \notin Range(lexer.tokens_[i].lexeme)

\* a '-' directly in front of a digit is the first character of the number
\* token whenever a token starts at it: a MINUS token is never followed by
\* a digit
MinusBeforeDigitFolded ==
  \A i \in 1..Len(lexer.tokens_) :
    lexer.tokens_[i].type = "MINUS"
      => LET behind == lexer.tokens_[i].column + 1
         IN behind > Len(lexer.source_) \/ lexer.source_[behind] \notin Digits

\* a-1 was lexed
SignedNumberLexed ==
  /\ lexDone
  /\ lexer.source_ = <<"a", "-", "1">>
  /\ Len(lexer.tokens_) = 3
  /\ lexer.tokens_[2].type = "NUMBER_LITERAL"
  /\ lexer.tokens_[2].lexeme = <<"-", "1">>


(***************************************************************************)
(* The AST handed out by BaseVisitor.  parse() runs on up to MaxAstStmts   *)
(* statements of different kinds, one of them ill-formed, and getAST() is  *)
(* then called up to MaxGetASTCalls times; at any time the owner of the    *)
(* visitor may add up to MaxAddNodeCalls nodes of its own with addNode().  *)
(***************************************************************************)
MaxAstStmts == 2

MaxGetASTCalls == 2

MaxAddNodeCalls == 1

\* the nodes of the AST that addNode() put there
addedNodes == {i \in DOMAIN parser.ast_ : parser.ast_[i] = "Added"}

\* the AST without them
parsedNodes == SelectSeq(parser.ast_, LAMBDA node : node # "Added")

\* a;   let a;   { a; }   and a let without a name
AstStatements ==
  {SimpleStmt, <<"LET", "IDENTIFIER", "SEMICOLON">>, Braces(SimpleStmt),
   <<"LET", "SEMICOLON">>}

AstInputs ==
  {Flat(parts) \o <<"END_OF_FILE">> :
     parts \in SeqsUpTo(AstStatements, MaxAstStmts)}

AstInit ==
  /\ \E toks \in AstInputs : tokens_ = TokenStreamCtor(toks)
  /\ current_ = 0
  /\ lastCall = NoCall
  /\ ret = FALSE
  /\ everMoved = FALSE
  /\ LexIdle
  /\ PipIdle
  /\ RepIdle
  /\ ExpIdle
  /\ \E impl \in {"h", "cpp"} : parser = ParserCtor(impl)
  /\ diagnostics = <<>>
  /\ checker = CheckerCtor(<<>>)

\* a call of getAST() after parse() has returned
GetAST ==
  /\ parser.done
  /\ parser.getASTCalls < MaxGetASTCalls
  /\ parser' = getAST(parser)
  /\ UNCHANGED <<tokens_, current_, diagnostics>>
  /\ ParFrame

\* a call of addNode() with a node of the caller
AddNode ==
  /\ Cardinality(addedNodes) < MaxAddNodeCalls
  /\ parser' = BaseVisitor_addNode(parser, "Added")
  /\ UNCHANGED <<tokens_, current_, diagnostics>>
  /\ ParFrame

AstNext ==
  \/ VisitParseIter
  \/ VisitParseReturn
  \/ ParseBlockIter
  \/ ParseBlockReturn
  \/ GetAST
  \/ AddNode

AstSpec == AstInit /\ [][AstNext]_vars

\* C30: after parse(), getAST() returns the same AST however often it is
\* called: every parsed top-level node once, in parse order
C30_GetASTIdempotent ==
  parser.getASTCalls >= 1 => parsedNodes = parser.nodes_

\* the first call hands out the parsed nodes, once each and in parse order
FirstGetASTIsTheNodes ==
  parser.getASTCalls = 1 => parsedNodes = parser.nodes_

\* every call appends all parsed nodes again
GetASTAppendsEveryCall ==
  /\ Len(parsedNodes) = parser.getASTCalls * Len(parser.nodes_)
  /\ \A i \in 1..Len(parsedNodes) :
       parsedNodes[i] = parser.nodes_[((i - 1) % Len(parser.nodes_)) + 1]

\* addNode(n) and then getAST(): n stands in front of the parsed nodes
AddedNodeInFrontOfParsed ==
  /\ parser.getASTCalls = 1
  /\ parser.nodes_ = <<"VarDecl">>
  /\ parser.ast_ = <<"Added", "VarDecl">>

\* getAST() was called twice on a program of two statements
GetASTCalledTwice ==
  /\ parser.getASTCalls = 2
  /\ parser.nodes_ = <<"VarDecl", "Block">>
  /\ parser.ast_ = <<"VarDecl", "Block", "VarDecl", "Block">>

=============================================================================
